---- MODULE Spec2Model ----
\* Verification model of the esprit2 server loop (server/src/lib.rs):
\* `instance`, `client_tick`, `Server::tick`, together with the parts of the
\* engine they call (world manager, consideration list).
EXTENDS Integers, Sequences, FiniteSets, TLC

\* ------------------------------------------------------------------ bounds
MaxClients == 2      \* connections ever routed to the instance
MaxFrames  == 3      \* frames the peers send in total
MaxDelay   == 2      \* cap on action_delay
MaxTime    == 20     \* cap on the clock (seconds)
TimeStep   == 10     \* granularity of the clock (seconds)
NEnemies   == 1      \* non-player pieces placed by the vault
MaxForEach == 2      \* for_each calls one decision script may make
MaxList    == 3      \* length of a Considerations list
MaxPattern == 2      \* picks after which a sequence of thread_rng repeats
MaxLevel   == 2      \* level stated by the sheet file
MaxWrites  == 2      \* frames one connection thread writes
MaxPayload == 2      \* bytes in one serialized packet
MaxThreads == 3      \* connections the listener accepts
MaxMutations == 2    \* actions and ticks applied to one world
MaxMessages == 4     \* console messages sent
MaxOps     == 4      \* operations applied to one piece
MaxLoopFrames == 2   \* frames the peer of one connection thread sends
MaxFanClients == 2   \* clients routed to the instance
MaxEmit    == 3      \* console messages the simulation emits
MaxSay     == 2      \* messages sent to the client console
MaxText    == 3      \* bytes of text of a message
MaxDelta   == 3      \* progress of one update, in 1/Scale of a character
MaxCoord   == 3      \* largest coordinate of the client's board

\* ------------------------------------------------------- program constants
TIMEOUT   == 10      \* client_tick: const TIMEOUT = Duration::from_secs(10)
PartySize == 2       \* Server::new: party_blueprint has two members
MoveCost  == 1       \* time cost of a Move (opaque to the core)
WaitAut   == 1       \* time cost offered by the Wait candidate

VARIABLES
    world,      \* server.world: the pieces, in insertion order
    clients,    \* instance: `clients` Vec<Client> (the active set)
    router,     \* mpsc channel of freshly created Clients
    net,        \* per connection: TCP stream as seen by the server
    now,        \* Instant::now(), seconds
    pc,         \* position of the instance thread in its loop
    i,          \* instance: index `i` of the client being ticked (1-based)
    packet,     \* argument of the recv callback (last frame yielded)
    result,     \* return value of the client_tick call being matched
    next_id,    \* next connection to be routed
    frames,     \* number of frames the peers have sent
    heard,      \* observer: time the last frame of each connection was dispatched
    stale,      \* observer: active clients not sent a World since the world last changed
    cons,       \* consider.rs: a Considerations value handed to a script
    given,      \* observer: the Vec that Considerations::new was called with
    visited,    \* observer: the Considers the callback was invoked on by the last for_each
    ret,        \* return value of the last for_each call
    ncalls,     \* observer: for_each calls made on `cons`
    runA,       \* one run of the server program: its rng seed and its world
    runB,       \* a second run of the same program on the same inputs
    conn,       \* main.rs: one connection thread's stream, with the peer's frame reader
    threads,    \* main.rs: the connection threads and the worlds of their instances
    console,    \* console.rs: the message channel and its Receiver
    actor,      \* character.rs: one Piece, as scripts and the server act on it
    link,       \* main.rs: the loop of one connection thread on its own instance
    fan,        \* lib.rs: the console channel of an instance and its clients' queues
    client      \* world_state.rs: the State of one client, or "none"

server_vars == <<world, clients, router, net, now, pc, i, packet, result, next_id, frames, heard, stale>>
consider_vars == <<cons, given, visited, ret, ncalls>>
replay_vars == <<runA, runB>>
vars == <<server_vars, consider_vars, replay_vars, conn, threads, console, actor, link, fan, client>>

\* What the steps of one part of the program leave alone.
not_server == <<consider_vars, replay_vars, conn, threads, console, actor, link, fan, client>>
not_instance == <<consider_vars, replay_vars, conn, threads, actor, link, fan, client>>
not_consider == <<server_vars, replay_vars, conn, threads, console, actor, link, fan, client>>
not_replay == <<server_vars, consider_vars, conn, threads, console, actor, link, fan, client>>
not_wire == <<server_vars, consider_vars, replay_vars, threads, console, actor, link, fan, client>>
not_thread == <<server_vars, consider_vars, replay_vars, conn, console, actor, link, fan, client>>
not_console == <<server_vars, consider_vars, replay_vars, conn, threads, actor, link, fan, client>>
not_piece == <<server_vars, consider_vars, replay_vars, conn, threads, console, link, fan, client>>
not_loop == <<server_vars, consider_vars, replay_vars, conn, threads, console, actor, fan, client>>
not_fan == <<server_vars, consider_vars, replay_vars, conn, threads, console, actor, link, client>>
not_client == <<server_vars, consider_vars, replay_vars, conn, threads, actor, link, fan>>

Ids    == 1..MaxClients
Actors == 1..(PartySize + NEnemies)

\* ------------------------------------------------------------ packets
NoPacket == [kind |-> "None"]
ServerPing == [kind |-> "Ping"]
\* The payload is the world as it is when the packet is queued; `stale` records
\* whether the world has changed since.
ServerWorld(w) == [kind |-> "World"]

Wait(aut) == [type |-> "Wait", aut |-> aut, x |-> 0, y |-> 0]
Move(x, y) == [type |-> "Move", aut |-> 0, x |-> x, y |-> y]
BadBody == [type |-> "Bad", aut |-> 0, x |-> 0, y |-> 0]

\* Actions a peer encodes into Action frames.
ClientActions == {Move(1, 1)}

\* protocol::ClientPacket, plus byte strings that are no valid archive.
ClientPing == [kind |-> "Ping", action |-> BadBody, user |-> "", ok |-> TRUE]
ClientAction(a) == [kind |-> "Action", action |-> a, user |-> "", ok |-> a.type # "Bad"]
ClientAuthenticate(u, ok) == [kind |-> "Authenticate", action |-> BadBody, user |-> u, ok |-> ok]
ClientRoute == [kind |-> "Route", action |-> BadBody, user |-> "", ok |-> TRUE]
Malformed == [kind |-> "Malformed", action |-> BadBody, user |-> "", ok |-> FALSE]

Frames ==
    {ClientPing, ClientRoute, Malformed,
     ClientAuthenticate("a", TRUE), ClientAuthenticate("a", FALSE),
     ClientAction(BadBody)}
    \cup {ClientAction(a) : a \in ClientActions}

\* Frames of peers that authenticate, under one name or another, and act.
AuthFrames ==
    {ClientAuthenticate("a", TRUE), ClientAuthenticate("b", TRUE)}
    \cup {ClientAction(a) : a \in ClientActions}

\* ------------------------------------------------------------ world
\* Variant: every piece is created with a delay of its own.
Piece_Staggered(k) ==
    [action_delay |-> k, player_controlled |-> FALSE, x |-> 0, y |-> 0]

\* Piece::new for the sheet of actor k: at the origin, action_delay 0, not
\* player controlled.
Piece(k) ==
    [action_delay |-> 0, player_controlled |-> FALSE, x |-> 0, y |-> 0]

\* world::Manager::new and generate_floor: the party members are marked as
\* player controlled and every piece is put on a tile of its own.
place(piece, k) ==
    [piece EXCEPT !.player_controlled = (k <= PartySize), !.x = k]

InitWorld == [k \in Actors |-> place(Piece(k), k)]

\* Variant: among the actors with minimal action_delay the last one is ready.
next_character_Last(w) ==
    CHOOSE k \in DOMAIN w :
        \A j \in DOMAIN w :
            \/ w[k].action_delay < w[j].action_delay
            \/ (w[k].action_delay = w[j].action_delay /\ k >= j)

\* The ready actor: minimal action_delay, ties broken by insertion order.
next_character(w) ==
    CHOOSE k \in DOMAIN w :
        \A j \in DOMAIN w :
            \/ w[k].action_delay < w[j].action_delay
            \/ (w[k].action_delay = w[j].action_delay /\ k <= j)

ActionCost(a) == IF a.type = "Wait" THEN a.aut ELSE MoveCost

\* Applies the action to the ready actor and debits its readiness.
perform_action(w, a) ==
    LET k == next_character(w) IN
    [w EXCEPT ![k] =
        [@ EXCEPT !.action_delay = @ + ActionCost(a),
                  !.x = IF a.type = "Move" THEN a.x ELSE @,
                  !.y = IF a.type = "Move" THEN a.y ELSE @]]

WithinCap(w, a) == w[next_character(w)].action_delay + ActionCost(a) <= MaxDelay

\* Candidate list for the ready actor: innate wait and movement.
consider_turn(w) ==
    LET k == next_character(w) IN
    << [action |-> Wait(WaitAut)], [action |-> Move(w[k].x, 1 - w[k].y)] >>

\* ------------------------------------------------------ considerations
\* Considerations(Option<Vec<Consider>>)
Considerations_new(list) == [some |-> TRUE, items |-> list]

Exhausted == "Considerations list has been exhausted"

\* Variant: the list is borrowed, not taken, so it can be walked again.
for_each_with_Borrowed(this, fail) ==
    [ok |-> TRUE, err |-> "", visited |-> this.items, this |-> this]

\* for_each: take() the list, or fail when it was already taken; then call
\* `function` on each Consider in order, stopping at the first call that
\* returns an error (`?`). `fail` is the position of that call, 0 for none.
for_each_with(this, fail) ==
    IF this.some
    THEN LET failed == fail \in 1..Len(this.items)
             n == IF failed THEN fail ELSE Len(this.items) IN
         [ok |-> ~failed,
          err |-> IF failed THEN "callback error" ELSE "",
          visited |-> SubSeq(this.items, 1, n),
          this |-> [some |-> FALSE, items |-> <<>>]]
    ELSE [ok |-> FALSE, err |-> Exhausted, visited |-> <<>>, this |-> this]

\* for_each with a callback that returns normally.
for_each(this) == for_each_with(this, 0)

RECURSIVE run_script(_, _)
\* A decision script that calls for_each `calls` times on the list it is given.
run_script(this, calls) ==
    IF calls = 0 THEN [ok |-> TRUE, visited |-> <<>>]
    ELSE LET r == for_each(this) IN
         IF ~r.ok THEN [ok |-> FALSE, visited |-> <<>>]
         ELSE LET rest == run_script(r.this, calls - 1) IN
              [ok |-> rest.ok, visited |-> r.visited \o rest.visited]

\* consider_action: run the actor's on_consider script over the list; the
\* script returns one of the candidates it visited (`choice`), or fails.
consider_action(considerations, calls, choice) ==
    LET r == run_script(Considerations_new(considerations), calls) IN
    IF r.ok /\ choice \in 1..Len(r.visited)
    THEN [ok |-> TRUE, action |-> r.visited[choice].action]
    ELSE [ok |-> FALSE, action |-> BadBody]

\* Lists a caller can build, and a script that calls for_each on one of them.
Considers == {[action |-> Wait(WaitAut)], [action |-> Move(0, 1)], [action |-> Move(1, 0)]}
RECURSIVE ListsOf(_)
ListsOf(n) ==
    IF n = 0 THEN {<<>>}
    ELSE LET shorter == ListsOf(n - 1) IN
         shorter \cup {Append(l, c) : l \in {m \in shorter : Len(m) = n - 1}, c \in Considers}

\* No Considerations value is in use (the state of these variables in the
\* specifications that are about other parts of the program).
ConsiderIdle ==
    /\ cons = Considerations_new(<<>>)
    /\ given = <<>>
    /\ visited = <<>>
    /\ ret = "None"
    /\ ncalls = 0

\* Considerations::new(list)
ConsiderInit ==
    /\ \E list \in ListsOf(MaxList) :
        /\ cons = Considerations_new(list)
        /\ given = list
    /\ visited = <<>>
    /\ ret = "None"
    /\ ncalls = 0

\* considerations:for_each(function), called from a script.
ForEach ==
    /\ ncalls < MaxForEach
    /\ \E fail \in 0..MaxList :
        LET r == for_each_with(cons, fail) IN
        /\ cons' = r.this
        /\ visited' = r.visited
        /\ ret' = IF r.ok THEN "Ok" ELSE r.err
    /\ ncalls' = ncalls + 1
    /\ UNCHANGED <<given, not_consider>>

\* ------------------------------------------------------------ sheets
\* character::Stats, in the order of the `stats` array of growth_bonuses.
StatNames == <<"heart", "soul", "power", "defense", "magic", "resistance">>
Stats_default == [n \in {StatNames[k] : k \in 1..Len(StatNames)} |-> 0]

\* u32 arithmetic; with the sheets below no value comes near 2^32.
Stats_add(a, b) == [n \in DOMAIN a |-> a[n] + b[n]]
Stats_mul(a, b) == [n \in DOMAIN a |-> a[n] * b[n]]
Stats_scale(a, c) == [n \in DOMAIN a |-> a[n] * c]
Stats_div(a, c) == [n \in DOMAIN a |-> a[n] \div c]

\* rand::thread_rng(): seeded by the operating system, so any sequence of
\* picks can come out of it. A generator is the sequence of picks it will
\* give, repeated for as long as picks are asked for, and the place it is at.
Seeds ==
    {[picks |-> picks, at |-> 1] :
        picks \in UNION {[1..n -> 1..Len(StatNames)] : n \in 1..MaxPattern}}
\* The generator after a draw.
Rng_next(rng) == [rng EXCEPT !.at = (@ % Len(rng.picks)) + 1]
\* SliceRandom::choose_mut over the six stats: the index drawn.
Rng_choose(rng) == rng.picks[rng.at]

BONUS_COUNT == 10

RECURSIVE growth_rolls(_, _, _)
\* The loop of growth_bonuses: `n` iterations are left.
growth_rolls(bonuses, rng, n) ==
    IF n = 0 THEN [stats |-> bonuses, rng |-> rng]
    ELSE LET stat == StatNames[Rng_choose(rng)]
             r1 == Rng_next(rng) IN
         IF bonuses[stat] = 0
         THEN LET other == StatNames[Rng_choose(r1)]
                  r2 == Rng_next(r1) IN
              growth_rolls([bonuses EXCEPT ![other] = @ + 1], r2, n - 1)
         ELSE growth_rolls([bonuses EXCEPT ![stat] = @ + 1], r1, n - 1)

\* growth_bonuses(): the serde default of Sheet::growth_bonuses.
growth_bonuses(rng) == growth_rolls(Stats_default, rng, BONUS_COUNT)

BONUS_WEIGHTS ==
    [heart |-> 20, soul |-> 20, power |-> 10, defense |-> 10, magic |-> 10, resistance |-> 10]

\* Sheet::stats
Sheet_stats(sheet) ==
    Stats_add(sheet.bases,
              Stats_div(Stats_scale(Stats_add(sheet.growths,
                                              Stats_mul(sheet.growth_bonuses, BONUS_WEIGHTS)),
                                    sheet.level),
                        100))

\* A sheet as a resource file states it: no growth_bonuses field.
SheetFile(level) ==
    [level |-> level,
     bases |-> [heart |-> 8, soul |-> 4, power |-> 2, defense |-> 2, magic |-> 1, resistance |-> 1],
     growths |-> [heart |-> 50, soul |-> 50, power |-> 25, defense |-> 25, magic |-> 25, resistance |-> 25]]

\* Deserializing the file: the missing field is filled by growth_bonuses().
Sheet_load(file, bonuses) ==
    [level |-> file.level, bases |-> file.bases, growths |-> file.growths,
     growth_bonuses |-> bonuses]

\* Piece::new(sheet): hp and sp at the maxima the sheet gives.
Piece_new(sheet) ==
    [sheet |-> sheet,
     hp |-> Sheet_stats(sheet).heart,
     sp |-> Sheet_stats(sheet).soul,
     x |-> 0,
     y |-> 0,
     action_delay |-> 0,
     player_controlled |-> FALSE,
     alliance |-> "Enemy"]

RECURSIVE load_pieces(_, _, _)
\* The pieces from actor k on, each from a sheet deserialized in turn.
load_pieces(k, rng, file) ==
    IF k \notin Actors THEN <<>>
    ELSE LET g == growth_bonuses(rng) IN
         <<place(Piece_new(Sheet_load(file, g.stats)), k)>>
            \o load_pieces(k + 1, g.rng, file)

\* ------------------------------------------------------------ replay
\* Server::new in a process whose thread_rng is the generator `seed`.
Server_new(seed, file) == [seed |-> seed, world |-> load_pieces(1, seed, file)]

\* No replay is running.
ReplayIdle ==
    /\ runA = [seed |-> 0, world |-> <<>>]
    /\ runB = [seed |-> 0, world |-> <<>>]

\* Two runs of the server program on the same resource directory.
ReplayInit ==
    \E level \in 1..MaxLevel, a \in Seeds, b \in Seeds :
        /\ runA = Server_new(a, SheetFile(level))
        /\ runB = Server_new(b, SheetFile(level))

\* Actions the two runs are fed.
ReplayActions == ClientActions \cup {Wait(WaitAut)}

\* Variant: the tick takes a turn whoever is ready.
TickActs_Always(w) == TRUE

\* Server::tick: `if !character.borrow().player_controlled`
TickActs(w) == ~w[next_character(w)].player_controlled

\* Server::recv_action: the action is applied when the ready piece is player
\* controlled, and dropped otherwise.
recv_action(w, a) ==
    IF w[next_character(w)].player_controlled THEN perform_action(w, a) ELSE w

\* Server::tick on w: the action the decision script settles on is applied
\* when the ready piece is not player controlled; Ok(false) or an error
\* leave the world as it is.
Server_tick(w, calls, choice) ==
    LET r == consider_action(consider_turn(w), calls, choice) IN
    IF TickActs(w) /\ r.ok THEN perform_action(w, r.action) ELSE w

\* The world stays within the cap on action_delay.
Capped(w) == \A k \in DOMAIN w : w[k].action_delay <= MaxDelay

\* recv_action in both runs, on the same action of a client.
ReplayAction ==
    /\ \E a \in ReplayActions :
        /\ runA' = [runA EXCEPT !.world = recv_action(@, a)]
        /\ runB' = [runB EXCEPT !.world = recv_action(@, a)]
    /\ Capped(runA'.world) /\ Capped(runB'.world)
    /\ UNCHANGED not_replay

\* Server::tick in both runs, the decision script doing the same in both.
ReplayTurn ==
    /\ \E calls \in 1..MaxForEach, choice \in 1..Len(consider_turn(runA.world)) :
        /\ runA' = [runA EXCEPT !.world = Server_tick(@, calls, choice)]
        /\ runB' = [runB EXCEPT !.world = Server_tick(@, calls, choice)]
    /\ Capped(runA'.world) /\ Capped(runB'.world)
    /\ UNCHANGED not_replay

\* ------------------------------------------------------------ clients
\* Variant: a session is created owning the piece of its own number.
Client_new_Owner(id, t) ==
    [id |-> id, sender |-> <<>>, ping |-> t, authentication |-> "None", owned_pieces |-> {id}]

\* Client::new
Client_new(id, t) ==
    [id |-> id, sender |-> <<>>, ping |-> t, authentication |-> "None", owned_pieces |-> {}]

ClosedNet == [state |-> "closed", inbound |-> <<>>]

ActiveIds(cl) == {cl[k].id : k \in 1..Len(cl)}

\* Variant: the last element is dropped, whichever element was meant.
swap_remove_Last(cl, k) == SubSeq(cl, 1, Len(cl) - 1)

\* Vec::swap_remove(i): the last element takes the place of element i.
swap_remove(cl, k) ==
    LET n == Len(cl) IN
    [j \in 1..(n - 1) |-> IF j = k THEN cl[n] ELSE cl[j]]

\* PacketSender::send: flush the queue into the stream.
SendResult(state) ==
    CASE state = "open" -> "Ok"
      [] state = "stalled" -> "WouldBlock"
      [] OTHER -> "Err"

\* PacketReceiver::recv with nothing left to yield.
RecvResult(state) == IF state = "broken" THEN "Err" ELSE "WouldBlock"

\* Variant: a would-block result is propagated like any other error.
IsFatal_WouldBlock(r) == r # "Ok"

\* client_tick: `Err(e) if e.kind() == WouldBlock => {}` / `Err(e) => Err(e)?`
IsFatal(r) == r = "Err"

\* Variant: the liveness check never fires.
TimedOut_Never(t, ping) == FALSE

\* client_tick: `client.ping.elapsed() > TIMEOUT`
TimedOut(t, ping) == t - ping > TIMEOUT

\* Where the `while i < clients.len()` loop goes next.
AfterClient(cl, k) == IF k <= Len(cl) THEN "flush" ELSE "tick"
\* `i` is a local of one loop iteration: it is 1 outside the while loop.
AfterIndex(cl, k) == IF k <= Len(cl) THEN k ELSE 1

\* ------------------------------------------------------------ Init
ServerInit ==
    /\ world = InitWorld
    /\ clients = <<>>
    /\ router = <<>>
    /\ net = [id \in Ids |-> ClosedNet]
    /\ now = 0
    /\ pc = "accept"
    /\ i = 1
    /\ packet = NoPacket
    /\ result = "None"
    /\ next_id = 1
    /\ frames = 0
    /\ heard = [id \in Ids |-> 0]
    /\ stale = {}

\* The state after construction: Server::new has run, no script is running.
\* ------------------------------------------------------------ frames
\* Payloads are short byte strings; the bytes are drawn from values that also
\* occur in length prefixes.
Bytes == {0, 1}
BytesOfLen(n) == [1..n -> Bytes]
Payloads == UNION {BytesOfLen(n) : n \in 0..MaxPayload}

\* Variant: most significant byte first.
to_le_bytes_Big(n) ==
    <<(n \div 16777216) % 256, (n \div 65536) % 256, (n \div 256) % 256, n % 256>>

\* u32::to_le_bytes: least significant byte first.
to_le_bytes(n) ==
    <<n % 256, (n \div 256) % 256, (n \div 65536) % 256, (n \div 16777216) % 256>>

\* u32::from_le_bytes, as the frame reader applies it to the prefix.
from_le_bytes(b) == b[1] + 256 * b[2] + 65536 * b[3] + 16777216 * b[4]

\* Stream::write_all(buf): all of buf is written, or an error is returned
\* after some shorter prefix of it has been written.
WriteAll(buf) ==
    {[written |-> SubSeq(buf, 1, n), ok |-> n = Len(buf)] : n \in 0..Len(buf)}

\* Variant: what is left in the buffer is discarded with the payload.
PacketReceiver_reset_Flush(r) == [known |-> FALSE, len |-> 0, buf |-> <<>>]

\* The frame reader after it yielded the payload at the head of its buffer:
\* it expects a length prefix again and keeps the bytes behind the payload.
PacketReceiver_reset(r) ==
    [known |-> FALSE, len |-> 0, buf |-> SubSeq(r.buf, r.len + 1, Len(r.buf))]

\* The frame reader working through its buffer: with fewer than 4 bytes it
\* waits; once the length is known it waits until that many bytes are
\* buffered, then yields one payload and starts over.
RECURSIVE PacketReceiver_drain(_, _)
PacketReceiver_drain(r, out) ==
    IF ~r.known
    THEN IF Len(r.buf) >= 4
         THEN PacketReceiver_drain(
                  [known |-> TRUE,
                   len |-> from_le_bytes(SubSeq(r.buf, 1, 4)),
                   buf |-> SubSeq(r.buf, 5, Len(r.buf))], out)
         ELSE [reader |-> r, payloads |-> out, result |-> "Ok"]
    ELSE IF Len(r.buf) >= r.len
         THEN PacketReceiver_drain(PacketReceiver_reset(r),
                                   Append(out, SubSeq(r.buf, 1, r.len)))
         ELSE [reader |-> r, payloads |-> out, result |-> "Ok"]

\* PacketReceiver::recv on the bytes one read returned.
PacketReceiver_recv(r, bytes) ==
    PacketReceiver_drain([r EXCEPT !.buf = @ \o bytes], <<>>)

PacketReceiver_default == [known |-> FALSE, len |-> 0, buf |-> <<>>]

\* No connection thread is writing.
WireIdle == conn = "none"

\* A connection thread before its first write.
WireInit ==
    conn = [wire |-> <<>>,       \* the bytes written to the TcpStream
            wpc |-> "idle",      \* position of the thread between its write_all calls
            sent |-> <<>>,       \* observer: the payloads whose write was begun
            taken |-> 0,         \* bytes of `wire` the peer's frame reader has read
            reader |-> PacketReceiver_default,
            yielded |-> <<>>,    \* observer: the payloads the reader has yielded
            rret |-> "None"]     \* what the last poll of the reader reported

\* stream.write_all(&packet_len).unwrap(): the length of the serialized packet.
WriteLen ==
    /\ conn.wpc = "idle"
    /\ Len(conn.sent) < MaxWrites
    /\ \E packet_bytes \in Payloads :
        \E w \in WriteAll(to_le_bytes(Len(packet_bytes))) :
            conn' = [conn EXCEPT !.sent = Append(@, packet_bytes),
                                 !.wire = @ \o w.written,
                                 !.wpc = IF w.ok THEN "payload" ELSE "dead"]
    /\ UNCHANGED not_wire

\* stream.write_all(&packet).unwrap(): the serialized packet itself.
WritePayload ==
    /\ conn.wpc = "payload"
    /\ \E w \in WriteAll(conn.sent[Len(conn.sent)]) :
            conn' = [conn EXCEPT !.wire = @ \o w.written,
                                 !.wpc = IF w.ok THEN "idle" ELSE "dead"]
    /\ UNCHANGED not_wire

\* The peer reads some of the bytes that have arrived, none when the read
\* would block, and hands them to its frame reader.
ReaderPoll ==
    /\ \E n \in 0..(Len(conn.wire) - conn.taken) :
        LET r == PacketReceiver_recv(conn.reader,
                                     SubSeq(conn.wire, conn.taken + 1, conn.taken + n)) IN
            conn' = [conn EXCEPT !.taken = @ + n,
                                 !.reader = r.reader,
                                 !.yielded = @ \o r.payloads,
                                 !.rret = r.result]
    /\ UNCHANGED not_wire

WireNext == WriteLen \/ WritePayload \/ ReaderPoll

\* ------------------------------------------------------------ threads
\* The listener spawns one thread per accepted connection.
Threads == 1..MaxThreads

\* Variant: every connection is routed to the same instance.
WorldOf_Shared(t) == 1

\* `let mut instance = Instance::new()` in connection(): the thread of a
\* connection builds the world it serves.
WorldOf(t) == t

\* No listener: no thread, no world.
ThreadIdle == threads = "none"

\* The listener before its first accept.
ThreadInit ==
    threads = [tpc |-> [t \in Threads |-> "none"],     \* position of each thread
               tworld |-> [w \in Threads |-> 0],       \* mutations applied to each world
               writers |-> [w \in Threads |-> {}]]     \* observer: who mutated each world

\* listener.incoming() yields a stream: thread::spawn(connection).
Spawn ==
    /\ \E t \in Threads :
        /\ threads.tpc[t] = "none"
        /\ \A u \in 1..(t - 1) : threads.tpc[u] # "none"
        /\ threads' = [threads EXCEPT !.tpc[t] = "recv"]
    /\ UNCHANGED not_thread

\* The recv callback of thread t meets an Action packet and calls recv_action.
ThreadRecvAction ==
    /\ \E t \in Threads :
        /\ threads.tpc[t] = "recv"
        /\ threads.tworld[WorldOf(t)] < MaxMutations
        /\ threads' = [threads EXCEPT !.tpc[t] = "action"]
    /\ UNCHANGED not_thread

\* recv_action returns: the action has been applied to the thread's world.
ThreadApplied ==
    /\ \E t \in Threads :
        /\ threads.tpc[t] = "action"
        /\ threads' = [threads EXCEPT !.tworld[WorldOf(t)] = @ + 1,
                                      !.writers[WorldOf(t)] = @ \cup {t},
                                      !.tpc[t] = "recv"]
    /\ UNCHANGED not_thread

\* Thread t calls instance.server.tick.
ThreadTick ==
    /\ \E t \in Threads :
        /\ threads.tpc[t] = "recv"
        /\ threads.tworld[WorldOf(t)] < MaxMutations
        /\ threads' = [threads EXCEPT !.tpc[t] = "tick"]
    /\ UNCHANGED not_thread

\* tick returns: the scheduler of the thread's world has advanced.
ThreadTicked ==
    /\ \E t \in Threads :
        /\ threads.tpc[t] = "tick"
        /\ threads' = [threads EXCEPT !.tworld[WorldOf(t)] = @ + 1,
                                      !.writers[WorldOf(t)] = @ \cup {t},
                                      !.tpc[t] = "recv"]
    /\ UNCHANGED not_thread

\* The ping timeout: connection() returns and the thread is finished.
ThreadTimeout ==
    /\ \E t \in Threads :
        /\ threads.tpc[t] = "recv"
        /\ threads' = [threads EXCEPT !.tpc[t] = "finished"]
    /\ UNCHANGED not_thread

ThreadNext ==
    \/ Spawn
    \/ ThreadRecvAction
    \/ ThreadApplied
    \/ ThreadTick
    \/ ThreadTicked
    \/ ThreadTimeout

\* ------------------------------------------------------------ console
\* MessagePrinter: the variants a message is built with.
Printers == {"Console", "Dialogue", "Combat"}

\* The methods of Handle that Rust code calls, and those registered for
\* scripts by add_methods.
HandleMethods == {[name |-> "print", printer |-> "Console"],
                  [name |-> "print_colored", printer |-> "Console"],
                  [name |-> "say", printer |-> "Dialogue"],
                  [name |-> "combat_log", printer |-> "Combat"]}
ScriptMethods == {[name |-> "print", printer |-> "Console"],
                  [name |-> "combat_log", printer |-> "Combat"]}

\* mpsc::Sender::send on an unbounded channel: it never waits; it fails when
\* the Receiver has been dropped, and the message is then discarded.
mpsc_send(ch, l, m) ==
    IF l = "alive"
    THEN [chan |-> Append(ch, m), result |-> "Ok"]
    ELSE [chan |-> ch, result |-> "Err"]

\* `let _ = sender.send(..)`: the result of the send is discarded.
Ignored(r) == "Unit"

\* `.map_err(mlua::Error::external)`: the result of the send is the result of
\* the method the script called.
map_err(r) == r

\* `let log = lua.from_value(log)?` of combat_log: the value the script gave
\* as the log deserializes or the method returns the error; print takes no
\* such value.
from_value(m, deserializes) == m.name # "combat_log" \/ deserializes

\* No console channel is open.
ConsoleIdle == console = "none"

\* mpsc::channel(): both ends alive, nothing sent.
ConsoleInit ==
    console = [listener |-> "alive",   \* the Receiver end of the channel
               chan |-> <<>>,          \* the messages in the channel, oldest first
               csent |-> 0,            \* number of sends made
               cret |-> "None"]        \* what the last send reported to its caller

\* Rust code sends a message: Console::send_message of the server, or one of
\* the print, say and combat_log methods of Handle.
HandleSend ==
    /\ console.csent < MaxMessages
    /\ \E m \in HandleMethods \cup {[name |-> "send_message", printer |-> p] : p \in Printers} :
        LET s == mpsc_send(console.chan, console.listener, m.printer) IN
            console' = [console EXCEPT !.chan = s.chan,
                                       !.cret = Ignored(s.result),
                                       !.csent = @ + 1]
    /\ UNCHANGED not_console

\* A script calls one of the methods registered on the Handle userdata.
ScriptSend ==
    /\ console.csent < MaxMessages
    /\ \E m \in ScriptMethods, deserializes \in BOOLEAN :
        IF ~from_value(m, deserializes)
        THEN console' = [console EXCEPT !.cret = "Err", !.csent = @ + 1]
        ELSE LET s == mpsc_send(console.chan, console.listener, m.printer) IN
            console' = [console EXCEPT !.chan = s.chan,
                                       !.cret = map_err(s.result),
                                       !.csent = @ + 1]
    /\ UNCHANGED not_console

\* The listener takes the oldest message.
ListenerRecv ==
    /\ console.listener = "alive"
    /\ console.chan # <<>>
    /\ console' = [console EXCEPT !.chan = Tail(@)]
    /\ UNCHANGED not_console

\* The Receiver is dropped, and with it whatever it had not taken.
ListenerDrop ==
    /\ console.listener = "alive"
    /\ console' = [console EXCEPT !.listener = "dropped", !.chan = <<>>]
    /\ UNCHANGED not_console

ConsoleNext == HandleSend \/ ScriptSend \/ ListenerRecv \/ ListenerDrop

\* ------------------------------------------------------------ dialogue
\* The f64 progress of a dialogue is kept as a count of 1/Scale characters.
Scale == 2

\* `progress as usize`
as_usize(progress) == progress \div Scale

\* Messages a Handle sends: dialogue starts at progress 0.0.
Dialogue(len) == [printer |-> "Dialogue", len |-> len, progress |-> 0]
Plain(len) == [printer |-> "Console", len |-> len, progress |-> 0]
Said == {Dialogue(len) : len \in 0..MaxText} \cup {Plain(1)}

RECURSIVE Receive(_, _)
\* The first loop of update: every pending message is pushed to the
\* history, and the index of a dialogue to in_progress.
Receive(c, pending) ==
    IF pending = <<>> THEN c
    ELSE LET history == Append(c.history, Head(pending)) IN
         Receive([c EXCEPT !.history = history,
                           !.in_progress =
                               IF Head(pending).printer = "Dialogue"
                               THEN Append(@, Len(history))
                               ELSE @],
                 Tail(pending))

\* The body of the second loop: the progress moves only while the new
\* progress is below the length of the text.
Progress(message, delta_progress) ==
    IF message.printer = "Dialogue" /\ message.progress + delta_progress < message.len * Scale
    THEN [message EXCEPT !.progress = @ + delta_progress]
    ELSE message

\* The test of the closing loop on the front of in_progress.
Finished(message) ==
    IF message.printer = "Dialogue"
    THEN message.len = as_usize(message.progress)
    ELSE TRUE

RECURSIVE PopFinished(_, _)
\* `while in_progress.front().is_some_and(..) { in_progress.pop_front(); }`
PopFinished(history, in_progress) ==
    IF in_progress # <<>> /\ Finished(history[Head(in_progress)])
    THEN PopFinished(history, Tail(in_progress))
    ELSE in_progress

\* Console::update, with delta / 0.1 = delta_progress
Console_update(c, delta_progress) ==
    LET received == Receive(c, c.chan)
        history == [k \in DOMAIN received.history |->
                        IF \E n \in DOMAIN received.in_progress : received.in_progress[n] = k
                        THEN Progress(received.history[k], delta_progress)
                        ELSE received.history[k]] IN
    [received EXCEPT !.history = history,
                     !.in_progress = PopFinished(history, @),
                     !.chan = <<>>]

\* Console::default
DialogueInit ==
    console = [history |-> <<>>,
               in_progress |-> <<>>,
               chan |-> <<>>,        \* messages sent and not yet received
               said |-> 0]           \* messages sent so far

\* A handle sends a message.
Say ==
    /\ console.said < MaxSay
    /\ \E message \in Said :
        console' = [console EXCEPT !.chan = Append(@, message), !.said = @ + 1]
    /\ UNCHANGED not_console

\* The client calls console.update(delta) with a positive delta.
Update ==
    /\ \E delta_progress \in 1..MaxDelta :
        console' = Console_update(console, delta_progress)
    /\ UNCHANGED not_console

DialogueNext == Say \/ Update

\* ------------------------------------------------------------ statuses
\* A u32 is kept as its two 16-bit halves <<high, low>>.
u32_ZERO == <<0, 0>>
u32_MAX == <<65535, 65535>>

\* Variant: u32::wrapping_add.
saturating_add_Wrapping(a, b) ==
    LET lo == a[2] + b[2]
        hi == a[1] + b[1] + (lo \div 65536) IN
    <<hi % 65536, lo % 65536>>

\* u32::saturating_add
saturating_add(a, b) ==
    LET lo == a[2] + b[2]
        hi == a[1] + b[1] + (lo \div 65536) IN
    IF hi >= 65536 THEN u32_MAX ELSE <<hi, lo % 65536>>

\* u32::saturating_sub, on the small values stats take.
saturating_sub(a, b) == IF a >= b THEN a - b ELSE 0

i32_min(a, b) == IF a <= b THEN a ELSE b

\* Option<u32> arguments a script may pass to inflict.
None == [some |-> FALSE, value |-> u32_ZERO]
Some(v) == [some |-> TRUE, value |-> v]
Magnitudes == {None, Some(<<0, 1>>), Some(<<32768, 0>>), Some(u32_MAX)}

\* The Status resources: one whose debuff a script computes from its
\* magnitude, lasting a turn, one whose script fails, and one with fixed
\* stats, lasting until a rest. The magnitude and the cache are skipped by
\* serde and start at their defaults.
StatusResource ==
    [bleed |-> [name |-> "bleed", duration |-> "Turn",
                effect |-> [kind |-> "Debuff", magnitude |-> u32_ZERO,
                            on_debuff |-> "wound"]],
     hex   |-> [name |-> "hex", duration |-> "Turn",
                effect |-> [kind |-> "Debuff", magnitude |-> u32_ZERO,
                            on_debuff |-> "fails"]],
     weak  |-> [name |-> "weak", duration |-> "Rest",
                effect |-> [kind |-> "StaticDebuff",
                            stats |-> [Stats_default EXCEPT !.heart = 1, !.soul = 1]]]]

\* Keys a script may pass: those of the resources and one that names none.
StatusKeys == DOMAIN StatusResource \cup {"nope"}

\* Debuff::get: the on_debuff script is evaluated with `magnitude` set
\* (get_script) and `.map_err(..).unwrap_or_default()` turns its failure into
\* the default stats; the cache holds what the script gave for the same
\* magnitude. The script "wound" takes two from the heart once there is a
\* magnitude; the script "fails" raises an error.
Debuff_get(debuff) ==
    IF debuff.on_debuff = "wound"
    THEN [Stats_default EXCEPT
            !.heart = IF debuff.magnitude = u32_ZERO THEN 0 ELSE 2]
    ELSE Stats_default

\* Status::on_debuff
Status_on_debuff(status) ==
    IF status.effect.kind = "Debuff" THEN Debuff_get(status.effect) ELSE status.effect.stats

\* Status::add_magnitude: a static debuff has no magnitude and is left as it is.
Status_add_magnitude(status, amount) ==
    IF status.effect.kind = "Debuff"
    THEN [status EXCEPT !.effect.magnitude = saturating_add(@, amount)]
    ELSE status

\* Variant: the retain closure keeps nothing.
retain_None(statuses, ended) == [k \in {} |-> StatusResource.bleed]

\* HashMap::retain on the statuses of a piece: those whose duration is not
\* the one that ends are kept.
retain(statuses, ended) ==
    [k \in {j \in DOMAIN statuses : statuses[j].duration # ended} |-> statuses[k]]

RECURSIVE SumDebuffs(_, _)
\* The loop of stat_outcomes over statuses.values().
SumDebuffs(statuses, keys) ==
    IF keys = {} THEN Stats_default
    ELSE LET k == CHOOSE j \in keys : TRUE IN
         Stats_add(SumDebuffs(statuses, keys \ {k}), Status_on_debuff(statuses[k]))

\* Piece::stats: the sheet's stats less the debuffs, no stat below zero.
Piece_stats(p) ==
    LET debuffs == SumDebuffs(p.statuses, DOMAIN p.statuses)
        stats == Sheet_stats(p.sheet) IN
    [n \in DOMAIN stats |-> saturating_sub(stats[n], debuffs[n])]

\* Piece::restore_hp and Piece::restore_sp
Piece_restore_hp(p, amount) ==
    [p EXCEPT !.hp = i32_min(p.hp + amount, Piece_stats(p).heart)]
Piece_restore_sp(p, amount) ==
    [p EXCEPT !.sp = i32_min(p.sp + amount, Piece_stats(p).soul)]

\* Piece::rest
Piece_rest(p) ==
    LET stats == Piece_stats(p)
        healed == Piece_restore_sp(Piece_restore_hp(p, stats.heart \div 2), stats.soul) IN
    [healed EXCEPT !.statuses = retain(@, "Rest")]

\* Piece::new_turn
Piece_new_turn(p) == [p EXCEPT !.statuses = retain(@, "Turn")]

\* inflict(lua, this, (key, magnitude)): the method scripts call on a piece.
inflict(p, key, magnitude) ==
    IF key \notin DOMAIN StatusResource
    THEN [piece |-> p, result |-> "NotFound"]
    ELSE LET status == StatusResource[key]
             entry == IF key \in DOMAIN p.statuses THEN p.statuses[key] ELSE status
             added == IF magnitude.some
                      THEN Status_add_magnitude(entry, magnitude.value)
                      ELSE entry IN
         [piece |-> [p EXCEPT !.statuses =
                        [k \in DOMAIN p.statuses \cup {key} |->
                            IF k = key THEN added ELSE p.statuses[k]]],
          result |-> "Ok"]

\* force_level: `*level = level.saturating_add(1)`; the levels of the model
\* stay far below u32::MAX.
force_level(p) == [p EXCEPT !.sheet.level = @ + 1]

\* Piece::new on a sheet of level 1 without growth bonuses.
PieceSheet == Sheet_load(SheetFile(1), Stats_default)
Piece_fresh ==
    [sheet |-> PieceSheet,
     hp |-> Sheet_stats(PieceSheet).heart,
     sp |-> Sheet_stats(PieceSheet).soul,
     statuses |-> [k \in {} |-> StatusResource.bleed],
     x |-> 0,
     y |-> 0,
     action_delay |-> 0,
     player_controlled |-> FALSE,
     alliance |-> "Enemy"]

NoneInflicted == [k \in DOMAIN StatusResource |-> [n |-> 0, hi |-> 0, lo |-> 0]]

\* The record of inflictions covers the entries the piece holds.
Forget(seen, p) ==
    [k \in DOMAIN seen |-> IF k \in DOMAIN p.statuses THEN seen[k] ELSE NoneInflicted[k]]

\* No piece is being acted on.
PieceIdle == actor = "none"

\* The public fields of a new piece as its owner sets them when placing it.
Alliances == {"Friendly", "Enemy"}
Placed(player_controlled, alliance, action_delay) ==
    [Piece_fresh EXCEPT !.player_controlled = player_controlled,
                        !.alliance = alliance,
                        !.action_delay = action_delay]

PieceInit ==
    \E player_controlled \in BOOLEAN, alliance \in Alliances, action_delay \in {0, MaxDelay} :
    actor = [piece |-> Placed(player_controlled, alliance, action_delay),
             op |-> "new",                 \* the last operation applied to the piece
             pret |-> "None",              \* result of the last call a script made
             inflicted |-> NoneInflicted,  \* observer: magnitudes inflicted per status id
             pops |-> 0]                   \* number of operations applied

\* Values a script writes to hp and sp, and amounts restored.
FieldWrites == {0, 9}
Amounts == {1, 4}

\* A script calls piece:inflict(key, magnitude).
Inflict ==
    /\ actor.pops < MaxOps
    /\ \E key \in StatusKeys, magnitude \in Magnitudes :
        LET r == inflict(actor.piece, key, magnitude) IN
            actor' = [actor EXCEPT
                !.piece = r.piece,
                !.op = "inflict",
                !.pret = r.result,
                !.inflicted =
                    IF r.result = "Ok"
                    THEN [@ EXCEPT ![key] =
                            [n |-> @.n + 1,
                             hi |-> @.hi + magnitude.value[1],
                             lo |-> @.lo + magnitude.value[2]]]
                    ELSE @,
                !.pops = @ + 1]
    /\ UNCHANGED not_piece

\* A script assigns piece.hp, piece.sp, piece.x or piece.y.
ScriptSet ==
    /\ actor.pops < MaxOps
    /\ \E field \in {"hp", "sp", "x", "y"}, value \in FieldWrites :
        actor' = [actor EXCEPT !.piece[field] = value, !.op = "set",
                               !.pret = "Ok", !.pops = @ + 1]
    /\ UNCHANGED not_piece

RestoreHp ==
    /\ actor.pops < MaxOps
    /\ \E amount \in Amounts :
        actor' = [actor EXCEPT !.piece = Piece_restore_hp(@, amount),
                               !.op = "restore_hp", !.pops = @ + 1]
    /\ UNCHANGED not_piece

RestoreSp ==
    /\ actor.pops < MaxOps
    /\ \E amount \in Amounts :
        actor' = [actor EXCEPT !.piece = Piece_restore_sp(@, amount),
                               !.op = "restore_sp", !.pops = @ + 1]
    /\ UNCHANGED not_piece

Rest ==
    /\ actor.pops < MaxOps
    /\ actor' = [actor EXCEPT !.piece = Piece_rest(@),
                              !.op = "rest",
                              !.inflicted = Forget(@, Piece_rest(actor.piece)),
                              !.pops = @ + 1]
    /\ UNCHANGED not_piece

\* A script calls piece:force_level().
ForceLevel ==
    /\ actor.pops < MaxOps
    /\ actor.piece.sheet.level < MaxLevel
    /\ actor' = [actor EXCEPT !.piece = force_level(@), !.op = "force_level",
                              !.pret = "Ok", !.pops = @ + 1]
    /\ UNCHANGED not_piece

NewTurn ==
    /\ actor.pops < MaxOps
    /\ actor' = [actor EXCEPT !.piece = Piece_new_turn(@),
                              !.op = "new_turn",
                              !.inflicted = Forget(@, Piece_new_turn(actor.piece)),
                              !.pops = @ + 1]
    /\ UNCHANGED not_piece

PieceNext ==
    Inflict \/ ScriptSet \/ ForceLevel \/ RestoreHp \/ RestoreSp \/ Rest \/ NewTurn

\* ------------------------------------------------------------ spells
Energies == {"Positive", "Negative"}
Harmonies == {"Chaos", "Order"}

\* Skillset: the major skill is on one axis, the optional minor on the other.
EnergyMajor(major, minor) == [kind |-> "EnergyMajor", major |-> major, minor |-> minor]
HarmonyMajor(major, minor) == [kind |-> "HarmonyMajor", major |-> major, minor |-> minor]

\* force_affinity(lua, this, index): the skillset a debugging script selects.
NSkillsets == 12
force_affinity(index) ==
    CASE index = 0 -> EnergyMajor("Positive", "None")
      [] index = 1 -> EnergyMajor("Positive", "Chaos")
      [] index = 2 -> EnergyMajor("Positive", "Order")
      [] index = 3 -> EnergyMajor("Negative", "None")
      [] index = 4 -> EnergyMajor("Negative", "Chaos")
      [] index = 5 -> EnergyMajor("Negative", "Order")
      [] index = 6 -> HarmonyMajor("Chaos", "None")
      [] index = 7 -> HarmonyMajor("Chaos", "Positive")
      [] index = 8 -> HarmonyMajor("Chaos", "Negative")
      [] index = 9 -> HarmonyMajor("Order", "None")
      [] index = 10 -> HarmonyMajor("Order", "Positive")
      [] index = 11 -> HarmonyMajor("Order", "Negative")
      [] OTHER -> "invalid affinity index"

\* The spells a piece may know: each energy and harmony, at each level.
Spells == [energy : Energies, harmony : Harmonies, level : 1..MaxLevel]

\* Variant: Option::is_none_or.
is_some_and_OrNone(minor, x) == minor = "None" \/ minor = x

\* Option::is_some_and(|x| x == ...) on the minor skill.
is_some_and(minor, x) == minor # "None" /\ minor = x

\* Spell::affinity
Spell_affinity(spell, character) ==
    LET skillset == character.sheet.skillset IN
    IF skillset.kind = "EnergyMajor"
    THEN LET minor_affinity == is_some_and(skillset.minor, spell.harmony) IN
         IF skillset.major = spell.energy
         THEN IF minor_affinity THEN "Strong" ELSE "Average"
         ELSE IF minor_affinity THEN "Weak" ELSE "Uncastable"
    ELSE LET minor_affinity == is_some_and(skillset.minor, spell.energy) IN
         IF skillset.major = spell.harmony
         THEN IF minor_affinity THEN "Strong" ELSE "Average"
         ELSE IF minor_affinity THEN "Weak" ELSE "Uncastable"

\* A character of any skillset holding any spell; no affinity asked for yet.
SpellInit ==
    \E index \in 0..(NSkillsets - 1), spell \in Spells :
    actor = [piece |-> [sheet |-> [skillset |-> force_affinity(index)]],
             spell |-> spell,
             affinity |-> "none",          \* what Spell::affinity returned last
             pret |-> "None"]              \* result of the last script call

\* A script calls force_affinity on the piece, with a valid index or not.
ForceAffinity ==
    /\ \E index \in 0..NSkillsets :
        IF index < NSkillsets
        THEN actor' = [actor EXCEPT !.piece.sheet.skillset = force_affinity(index),
                                    !.affinity = "none",
                                    !.pret = "Ok"]
        ELSE actor' = [actor EXCEPT !.pret = force_affinity(index)]
    /\ UNCHANGED not_piece

\* spell.affinity(character)
Affinity ==
    /\ actor' = [actor EXCEPT !.affinity = Spell_affinity(actor.spell, actor.piece)]
    /\ UNCHANGED not_piece

SpellNext == ForceAffinity \/ Affinity

\* No connection thread is running.
LoopIdle == link = "none"

\* ------------------------------------------------------------ client
\* i32::abs
abs(n) == IF n < 0 THEN 0 - n ELSE n

\* The world copy of a client: a party member somewhere on the first row and
\* one other character, of either alliance, in a corner of the right edge.
PartyMember(x, action_delay) ==
    [x |-> x, y |-> 0, action_delay |-> action_delay,
     player_controlled |-> TRUE, alliance |-> "Friendly"]
Other(y, alliance) ==
    [x |-> MaxCoord, y |-> y, action_delay |-> 0,
     player_controlled |-> FALSE, alliance |-> alliance]
Worlds ==
    {<<PartyMember(x, action_delay), Other(y, alliance)>> :
        x \in 0..MaxCoord, action_delay \in {0, 1},
        y \in {0, MaxCoord}, alliance \in Alliances}

\* The exit tile of the current floor.
ExitTile == [x |-> 1, y |-> 0]

\* select::Point; a Character point refers to the piece it was made from.
Character(character) ==
    [kind |-> "Character", x |-> character.x, y |-> character.y,
     alliance |-> character.alliance]
Exit(x, y) == [kind |-> "Exit", x |-> x, y |-> y, alliance |-> "None"]

\* select::assign_indicies: every character of the world, then every exit.
assign_indicies(w) ==
    {Character(w[k]) : k \in DOMAIN w} \cup {Exit(ExitTile.x, ExitTile.y)}

\* input::Mode
Modes == {"Normal", "Cursor", "Prompt", "DirectionPrompt"}

\* What input::controllable_character may return for a key: Ok((mode, response))
\* with any mode and an optional response, or an error. A Partial response
\* names the request it carries; the mode beside it is not looked at.
Responses(w) ==
    {[ok |-> TRUE, mode |-> mode, kind |-> "None", point |-> Exit(0, 0), action |-> Wait(0)] :
            mode \in Modes}
    \cup {[ok |-> TRUE, mode |-> mode, kind |-> "Select", point |-> point, action |-> Wait(0)] :
            mode \in Modes, point \in assign_indicies(w)}
    \cup {[ok |-> TRUE, mode |-> mode, kind |-> "Act", point |-> Exit(0, 0), action |-> action] :
            mode \in Modes, action \in {Wait(WaitAut), Move(0, 0)}}
    \cup {[ok |-> TRUE, mode |-> "Normal", kind |-> request, point |-> Exit(0, 0), action |-> Wait(0)] :
            request \in {"Cursor", "Prompt", "DirectionPrompt"}}
    \cup {[ok |-> FALSE, mode |-> "Normal", kind |-> "None", point |-> Exit(0, 0), action |-> Wait(0)]}

\* Variant: the check of the ready character is left out.
player_controlled_Always(w) == TRUE

\* `world().next_character().borrow().player_controlled`
player_controlled(w) == w[next_character(w)].player_controlled

\* Variant: one tile in every case.
safe_range_One(next, point) == 1

\* "Give a safe range of 2 tiles if the target is an enemy."
safe_range(next, point) == IF next.alliance # point.alliance THEN 2 ELSE 1

\* The test that ends the chase.
arrived(next, point) ==
    IF point.kind = "Character"
    THEN /\ abs(next.x - point.x) <= safe_range(next, point)
         /\ abs(next.y - point.y) <= safe_range(next, point)
    ELSE next.x = point.x /\ next.y = point.y

\* State::event for a key: the mode returned, the chase point and what is
\* sent to the server; `sends` tells whether send_action returns Ok, and the
\* unwrap on its result ends the client when it does not.
event(c, input_mode, response, sends) ==
    IF ~player_controlled(c.world)
    THEN [c EXCEPT !.mode = input_mode, !.sent = <<>>]
    ELSE IF ~response.ok
    THEN [c EXCEPT !.mode = "Normal", !.sent = <<>>]
    ELSE CASE response.kind = "Select" ->
                [c EXCEPT !.chase_point = <<response.point>>,
                          !.mode = response.mode, !.sent = <<>>]
           [] response.kind = "Act" ->
                IF sends
                THEN [c EXCEPT !.mode = response.mode, !.sent = <<response.action>>]
                ELSE [c EXCEPT !.sent = <<response.action>>, !.ended = TRUE]
           [] response.kind \in {"Cursor", "Prompt", "DirectionPrompt"} ->
                [c EXCEPT !.mode = response.kind, !.sent = <<>>]
           [] OTHER -> [c EXCEPT !.mode = response.mode, !.sent = <<>>]

\* The first part of State::tick: following the chase point.
chase(c) ==
    LET next == c.world[next_character(c.world)] IN
    IF player_controlled(c.world) /\ c.chase_point # <<>>
    THEN LET point == c.chase_point[1] IN
         IF arrived(next, point)
         THEN [c EXCEPT !.chase_point = <<>>, !.sent = <<>>]
         ELSE [c EXCEPT !.sent = <<Move(point.x, point.y)>>]
    ELSE [c EXCEPT !.sent = <<>>]

\* No client is running.
ClientIdle == client = "none"

\* State::new, with the first world the server sent and Console::default.
ClientInit ==
    /\ \E w \in Worlds :
        client = [world |-> w,
                  chase_point |-> <<>>,      \* Option<select::Point>
                  mode |-> "Normal",         \* the input mode the caller holds
                  op |-> "new",              \* the last handler that ran
                  sent |-> <<>>,             \* actions that handler sent to the server
                  ended |-> FALSE]           \* the process has panicked or exited
    /\ DialogueInit

\* event() with a KeyDown event.
KeyDown ==
    /\ ~client.ended
    /\ \E response \in Responses(client.world), sends \in BOOLEAN :
        client' = [event(client, client.mode, response, sends) EXCEPT !.op = "key"]
    /\ UNCHANGED <<console, not_client>>

\* event() with any other event: the mode is returned as it came.
OtherEvent ==
    /\ ~client.ended
    /\ client' = [client EXCEPT !.op = "other", !.sent = <<>>]
    /\ UNCHANGED <<console, not_client>>

\* tick(): the chase, then server.tick, which may take in a World packet,
\* then console.update(delta); a send_action of the chase or a server.tick
\* that fails ends the process.
ClientTick ==
    /\ ~client.ended
    /\ \/ /\ \E w \in Worlds \cup {client.world} :
              client' = [chase(client) EXCEPT !.world = w, !.op = "tick"]
          /\ \E delta_progress \in 1..MaxDelta :
              console' = Console_update(console, delta_progress)
       \/ /\ client' = [chase(client) EXCEPT !.op = "tick", !.ended = TRUE]
          /\ UNCHANGED console
    /\ UNCHANGED not_client

ClientNext == KeyDown \/ OtherEvent \/ ClientTick

\* ------------------------------------------------------ console fan-out
FanIds == 1..MaxFanClients

\* Variant: only the first client of the active set is served.
Recipients_First(active) == IF active = <<>> THEN <<>> ELSE <<active[1]>>

\* `for client in &mut clients`: every client of the active set, in order.
Recipients(active) == active

RECURSIVE QueueTo(_, _, _)
\* client.sender.queue(Message(i)) for each of `to` in turn.
QueueTo(outq, to, message) ==
    IF to = <<>> THEN outq
    ELSE QueueTo([outq EXCEPT ![Head(to)] = Append(@, message)], Tail(to), message)

RECURSIVE FanOut(_, _, _)
\* `for i in console_reciever.try_iter()`: the pending messages, oldest first.
FanOut(outq, active, pending) ==
    IF pending = <<>> THEN outq
    ELSE FanOut(QueueTo(outq, Recipients(active), Head(pending)), active, Tail(pending))

\* No instance is running.
FanIdle == fan = "none"

\* instance() as it enters its loop.
FanInit ==
    fan = [pc |-> "accept",
           active |-> <<>>,                     \* the `clients` Vec, as connection ids
           joined |-> 0,                        \* connections routed so far
           outq |-> [c \in FanIds |-> <<>>],    \* each client's outbound Message packets
           chan |-> <<>>,                       \* the console channel
           emitted |-> 0,                       \* messages emitted; they are numbered
           log |-> <<>>]                        \* observer: each drained message and the
                                                \* active set it was drained under

\* `for i in router.try_iter()`: clients join the active set.
FanAccept ==
    /\ fan.pc = "accept"
    /\ \/ /\ fan.joined < MaxFanClients
          /\ fan' = [fan EXCEPT !.joined = @ + 1, !.active = Append(@, fan.joined + 1)]
       \/ fan' = [fan EXCEPT !.pc = "clients"]
    /\ UNCHANGED not_fan

\* The pass over the clients: a client_tick fails and its client is removed
\* with its queue (swap_remove), or the pass ends.
FanClients ==
    /\ fan.pc = "clients"
    /\ \/ \E k \in 1..Len(fan.active) :
            fan' = [fan EXCEPT !.active = swap_remove(@, k),
                               !.outq[fan.active[k]] = <<>>]
       \/ fan' = [fan EXCEPT !.pc = "drain"]
    /\ UNCHANGED not_fan

\* The simulation emits a console message: an action applied on behalf of a
\* client during the pass over the clients, or by Server::tick.
FanEmit ==
    /\ fan.pc \in {"clients", "tick"}
    /\ fan.emitted < MaxEmit
    /\ fan' = [fan EXCEPT !.emitted = @ + 1, !.chan = Append(@, fan.emitted + 1)]
    /\ UNCHANGED not_fan

\* The console channel is drained to the clients' queues.
FanDrain ==
    /\ fan.pc = "drain"
    /\ fan' = [fan EXCEPT
            !.outq = FanOut(@, fan.active, fan.chan),
            !.chan = <<>>,
            !.log = @ \o [k \in 1..Len(fan.chan) |-> [msg |-> fan.chan[k], to |-> fan.active]],
            !.pc = "tick"]
    /\ UNCHANGED not_fan

\* server.tick returns and the loop starts over.
FanTick ==
    /\ fan.pc = "tick"
    /\ fan' = [fan EXCEPT !.pc = "accept"]
    /\ UNCHANGED not_fan

FanNext == FanAccept \/ FanClients \/ FanEmit \/ FanDrain \/ FanTick

\* instance(): the console channel of the instance holds no message.
ChannelInit == console = <<>>

Init ==
    /\ ServerInit
    /\ ConsiderIdle
    /\ ReplayIdle
    /\ WireIdle
    /\ ThreadIdle
    /\ ChannelInit
    /\ PieceIdle
    /\ LoopIdle
    /\ FanIdle
    /\ ClientIdle

\* A panic unwinds the instance thread: its clients (and their streams) and
\* the router receiver are dropped.
Panic ==
    /\ pc' = "panicked"
    /\ clients' = <<>>
    /\ router' = <<>>
    /\ net' = [id \in Ids |-> ClosedNet]
    /\ heard' = [id \in Ids |-> 0]
    /\ stale' = {}

\* ------------------------------------------------------- environment
\* A connection is accepted by the listener thread and routed to the
\* instance, whatever the instance thread is doing. Once the instance has
\* panicked the receiver is gone: the send fails and the client is dropped
\* with its stream.
Connect ==
    /\ next_id <= MaxClients
    /\ IF pc # "panicked"
       THEN /\ router' = Append(router, Client_new(next_id, now))
            /\ net' = [net EXCEPT ![next_id] = [state |-> "open", inbound |-> <<>>]]
            /\ heard' = [heard EXCEPT ![next_id] = now]
       ELSE UNCHANGED <<router, net, heard>>
    /\ next_id' = next_id + 1
    /\ UNCHANGED <<world, clients, now, pc, i, packet, result, frames, stale>>
    /\ UNCHANGED not_server

\* A peer writes one frame into its stream. The frame is added when the
\* receiver is about to read the stream, which is when it is observed.
PeerSendFrom(sendable) ==
    /\ pc = "recv"
    /\ \E id \in {clients[i].id}, f \in sendable :
        /\ net[id].state \in {"open", "stalled"}
        /\ frames < MaxFrames
        /\ net[id].inbound = <<>>
        /\ net' = [net EXCEPT ![id].inbound = Append(@, f)]
    /\ frames' = frames + 1
    /\ UNCHANGED <<world, clients, router, now, pc, i, packet, result, next_id, heard, stale>>
    /\ UNCHANGED not_server

PeerSend == PeerSendFrom(Frames)
PeerSendAuth == PeerSendFrom(AuthFrames)

\* The peer stops reading (writes would block) or resumes, or the stream fails.
PeerStream ==
    /\ pc \in {"flush", "recv"}
    /\ \E id \in {clients[i].id}, s \in {"stalled", "broken"} :
        /\ net[id].state \in {"open", "stalled"}
        /\ s # net[id].state
        /\ pc = "recv" => s = "broken"
        /\ net' = [net EXCEPT ![id].state = s]
    /\ UNCHANGED <<world, clients, router, now, pc, i, packet, result, next_id, frames, heard, stale>>
    /\ UNCHANGED not_server

Advance ==
    /\ pc \in {"accept", "callback", "timeout"}
    /\ now + TimeStep <= MaxTime
    /\ now' = now + TimeStep
    /\ UNCHANGED <<world, clients, router, net, pc, i, packet, result, next_id, frames, heard, stale>>
    /\ UNCHANGED not_server

\* ------------------------------------------------------- instance loop
\* Variant: a routed client is pushed without a Ping.
Routed_Silent(c) == c

\* instance: `client.sender.queue(&protocol::ServerPacket::Ping)`
Routed(c) == [c EXCEPT !.sender = Append(@, ServerPing)]

\* `for mut client in router.try_iter()`: queue a Ping, push to clients.
Accept ==
    /\ pc = "accept"
    /\ clients' = clients \o [k \in 1..Len(router) |-> Routed(router[k])]
    /\ router' = <<>>
    /\ i' = 1
    /\ pc' = AfterClient(clients', 1)
    /\ UNCHANGED <<world, net, now, packet, result, next_id, frames, heard, stale>>
    /\ UNCHANGED not_server

\* client_tick, first step: client.sender.send(&mut client.stream)
Flush ==
    /\ pc = "flush"
    /\ LET c == clients[i]
           r == SendResult(net[c.id].state) IN
        /\ clients' = IF r = "Ok" THEN [clients EXCEPT ![i].sender = <<>>] ELSE clients
        /\ IF IsFatal(r)
           THEN pc' = "match" /\ result' = "Io"
           ELSE pc' = "recv" /\ result' = result
        \* Writability is sampled by the flush; it matters again at the next one.
        /\ net' = IF r = "WouldBlock" THEN [net EXCEPT ![c.id].state = "open"] ELSE net
    /\ UNCHANGED <<world, router, now, i, packet, next_id, frames, heard, stale>>
    /\ UNCHANGED not_server

\* client_tick: client.receiver.recv(...) yields the next buffered frame to
\* the callback, or returns.
Recv ==
    /\ pc = "recv"
    /\ LET c == clients[i] IN
        IF net[c.id].inbound # <<>>
        THEN /\ packet' = Head(net[c.id].inbound)
             /\ net' = [net EXCEPT ![c.id].inbound = Tail(@)]
             /\ pc' = "callback"
             /\ result' = result
        ELSE /\ packet' = NoPacket
             /\ net' = net
             /\ IF IsFatal(RecvResult(net[c.id].state))
                THEN pc' = "match" /\ result' = "Io"
                ELSE pc' = "timeout" /\ result' = result
    /\ UNCHANGED <<world, clients, router, now, i, next_id, frames, heard, stale>>
    /\ UNCHANGED not_server

\* What the callback does with one frame.
\* `rkyv::access(..).unwrap()` and `rkyv::deserialize(..).unwrap()` panic.
Decodes(p) == p.kind # "Malformed" /\ p.ok

\* Variant: the action is applied whoever is ready.
Honoured_Always(w, c) == TRUE

\* client_tick: `if next_character.borrow().player_controlled`
Honoured(w, c) == w[next_character(w)].player_controlled

\* Variant: the Ping is answered, the liveness timestamp is left alone.
ping_reply_Stale(c, t) == [c EXCEPT !.sender = Append(@, ServerPing)]

\* client_tick, Ping arm: queue a Ping, `client.ping = Instant::now()`.
ping_reply(c, t) == [c EXCEPT !.sender = Append(@, ServerPing), !.ping = t]

\* Variant: a Route packet counts as a sign of life.
on_route_Alive(c, t) == [c EXCEPT !.ping = t]

\* client_tick, Route arm: `Route(_route) => {}` (the client is already routed).
on_route(c, t) == c

\* Variant: credentials are kept once set.
authenticate_Once(c, user) ==
    IF c.authentication = "None" THEN [c EXCEPT !.authentication = user] ELSE c

\* client_tick, Authenticate arm: `client.authentication = Some(..)`.
authenticate(c, user) == [c EXCEPT !.authentication = user]

\* Variant: the resync is queued to every client.
Reject_All(cl, k, w) ==
    [j \in 1..Len(cl) |-> [cl[j] EXCEPT !.sender = Append(@, ServerWorld(w))]]

\* client_tick, else branch: warn, queue a World snapshot to the sender.
Reject(cl, k, w) == [cl EXCEPT ![k].sender = Append(@, ServerWorld(w))]

\* What one perform_action sends to the console handle: nothing, or a message.
Logs == {<<>>, <<"log">>}

\* instance: `for i in console_reciever.try_iter() { for client in &mut clients
\* { client.sender.queue(&Message(&i)) } }`
Drain(cl, pending) ==
    [k \in 1..Len(cl) |->
        [cl[k] EXCEPT !.sender = @ \o [j \in 1..Len(pending) |-> [kind |-> "Message"]]]]

\* client_tick, the recv callback: the packet is decoded (unwrap) and
\* dispatched; in the Action arm perform_action(..).unwrap() applies the
\* action, which may send to the console, or, when perform_action returns an
\* error, panics.
Callback ==
    /\ pc = "callback"
    /\ LET c == clients[i] IN
        \E performs \in BOOLEAN, logs \in Logs :
        IF \/ ~Decodes(packet)
           \/ /\ packet.kind = "Action"
              /\ Honoured(world, c)
              /\ WithinCap(world, packet.action)
              /\ ~performs
        THEN /\ Panic
             /\ console' = <<>>
             /\ UNCHANGED world
        ELSE
        /\ pc' = "recv"
        /\ console' = IF packet.kind = "Action" /\ Honoured(world, c)
                      THEN console \o logs
                      ELSE console
        /\ UNCHANGED <<router, net>>
        /\ heard' = [heard EXCEPT ![c.id] = now]
        /\ CASE packet.kind = "Ping" ->
                  /\ clients' = [clients EXCEPT ![i] = ping_reply(@, now)]
                  /\ UNCHANGED <<world, stale>>
             [] packet.kind = "Action" ->
                  IF Honoured(world, c)
                  THEN /\ WithinCap(world, packet.action)
                       /\ world' = perform_action(world, packet.action)
                       /\ stale' = ActiveIds(clients)
                       /\ clients' = clients
                  ELSE /\ clients' = Reject(clients, i, world)
                       /\ stale' = stale \ {c.id}
                       /\ world' = world
             [] packet.kind = "Authenticate" ->
                  /\ clients' = [clients EXCEPT ![i] = authenticate(@, packet.user)]
                  /\ UNCHANGED <<world, stale>>
             [] packet.kind = "Route" ->
                  /\ clients' = [clients EXCEPT ![i] = on_route(@, now)]
                  /\ UNCHANGED <<world, stale>>
    /\ UNCHANGED <<now, i, packet, result, next_id, frames>>
    /\ UNCHANGED not_instance

\* client_tick, last step: the liveness check and the return value.
TimeoutCheck ==
    /\ pc = "timeout"
    /\ result' = IF TimedOut(now, clients[i].ping) THEN "Timeout" ELSE "Ok"
    /\ pc' = "match"
    /\ UNCHANGED <<world, clients, router, net, now, i, packet, next_id, frames, heard, stale>>
    /\ UNCHANGED not_server

\* instance: `match client_tick(..) { Ok(()) => i += 1, Err(_) => swap_remove(i) }`
Match ==
    /\ pc = "match"
    /\ IF result = "Ok"
       THEN /\ i' = AfterIndex(clients, i + 1)
            /\ pc' = AfterClient(clients, i + 1)
            /\ UNCHANGED <<clients, net, stale, heard>>
       ELSE /\ clients' = swap_remove(clients, i)
            /\ i' = AfterIndex(clients', i)
            /\ pc' = AfterClient(clients', i)
            /\ net' = [net EXCEPT ![clients[i].id] = ClosedNet]
            /\ stale' = stale \ {clients[i].id}
            /\ heard' = [heard EXCEPT ![clients[i].id] = 0]
    /\ result' = "None"
    /\ UNCHANGED <<world, router, now, packet, next_id, frames>>
    /\ UNCHANGED not_server

\* instance, after the pass over the clients: the console channel is drained
\* to every client, then `server.tick(&scripts, &console_handle).unwrap()`,
\* whose perform_action may send to the console.
ServerTick ==
    /\ pc = "tick"
    /\ IF TickActs(world)
        THEN \E calls \in 1..MaxForEach, choice \in 1..Len(consider_turn(world)),
                logs \in Logs :
                LET r == consider_action(consider_turn(world), calls, choice) IN
                IF r.ok
                THEN /\ WithinCap(world, r.action)
                     /\ world' = perform_action(world, r.action)
                     /\ stale' = ActiveIds(clients)
                     /\ pc' = "broadcast"
                     /\ clients' = Drain(clients, console)
                     /\ console' = logs
                     /\ UNCHANGED <<router, net, heard>>
                ELSE /\ Panic
                     /\ console' = <<>>
                     /\ UNCHANGED world
        ELSE /\ pc' = "sleep"
             /\ clients' = Drain(clients, console)
             /\ console' = <<>>
             /\ UNCHANGED <<world, router, net, stale, heard>>
    /\ UNCHANGED <<now, i, packet, result, next_id, frames>>
    /\ UNCHANGED not_instance

\* instance: tick returned true, queue the World to every client.
Broadcast ==
    /\ pc = "broadcast"
    /\ clients' = [k \in 1..Len(clients) |->
                      [clients[k] EXCEPT !.sender = Append(@, ServerWorld(world))]]
    /\ stale' = {}
    /\ pc' = "accept"
    /\ UNCHANGED <<world, router, net, now, i, packet, result, next_id, frames, heard>>
    /\ UNCHANGED not_server

\* instance: tick returned false, thread::sleep(1ms).
Sleep ==
    /\ pc = "sleep"
    /\ pc' = "accept"
    /\ UNCHANGED <<world, clients, router, net, now, i, packet, result, next_id, frames, heard, stale>>
    /\ UNCHANGED not_server

Next ==
    \/ Connect
    \/ PeerSend
    \/ PeerStream
    \/ Advance
    \/ Accept
    \/ Flush
    \/ Recv
    \/ Callback
    \/ TimeoutCheck
    \/ Match
    \/ ServerTick
    \/ Broadcast
    \/ Sleep

Spec == Init /\ [][Next]_vars

\* ------------------------------------------------------ connection loop
\* The statements of the `loop` in connection(), in program order: receive
\* and dispatch, the timeout check, the tick, the World for a waiting player.
LoopOrder_CheckFirst == <<"timeout", "recv", "tick", "send">>

LoopOrder == <<"recv", "timeout", "tick", "send">>

PlaceOf(step) == CHOOSE k \in 1..Len(LoopOrder) : LoopOrder[k] = step
StepAfter(step) == LoopOrder[(PlaceOf(step) % Len(LoopOrder)) + 1]

\* What the peer of the connection writes: the two ClientPacket variants this
\* loop matches on, and bytes that are no valid archive.
LoopFrames == {[kind |-> "Ping", action |-> BadBody],
               [kind |-> "Malformed", action |-> BadBody]}
              \cup {[kind |-> "Action", action |-> a] : a \in ClientActions}

\* Variant: an Action leaves awaiting_input as it is.
awaiting_after_action_Kept(awaiting_input) == awaiting_input

\* `awaiting_input = false` in the Action arm of the recv callback.
awaiting_after_action(awaiting_input) == FALSE

\* The thread goes on to `step`; when that is the top of the loop, the
\* observers note how the iteration begins.
Enter(l, step) ==
    IF step = LoopOrder[1]
    THEN [l EXCEPT !.pc = step,
                   !.began = l.now,
                   !.late = TimedOut(l.now, l.ping),
                   !.arrived = \E k \in 1..Len(l.inbound) : l.inbound[k].kind = "Ping"]
    ELSE [l EXCEPT !.pc = step]

\* connection() as it enters its loop: send_ping has set the ping instant and
\* the initial World has been written.
LoopInit ==
    link = [pc |-> LoopOrder[1],
            now |-> 0,                  \* Instant::now(), seconds
            ping |-> 0,                 \* instance.server.players.ping
            inbound |-> <<>>,           \* frames written by the peer, not yet received
            nframes |-> 0,              \* frames the peer has written
            awaiting_input |-> FALSE,
            world |-> InitWorld,        \* instance.server.world
            worlds |-> 0,               \* observer: World packets written by the loop
            acted |-> FALSE,            \* observer: an Action came since the last of them
            began |-> 0,                \* observer: when this iteration began
            late |-> FALSE,             \* observer: the ping was overdue at that time
            arrived |-> FALSE]          \* observer: a Ping had arrived by that time

LoopRunning == link.pc \notin {"returned", "panicked"}

\* The peer writes a frame.
LoopPeer ==
    /\ LoopRunning
    /\ link.nframes < MaxLoopFrames
    /\ \E f \in LoopFrames :
        link' = [link EXCEPT !.inbound = Append(@, f), !.nframes = @ + 1]
    /\ UNCHANGED not_loop

\* Time passes.
LoopAdvance ==
    /\ LoopRunning
    /\ link.now + TimeStep <= MaxTime
    /\ link' = [link EXCEPT !.now = @ + TimeStep]
    /\ UNCHANGED not_loop

\* packet_reciever.recv(&mut stream, |packet| ..).unwrap(): one frame is
\* handed to the callback, or none is left and recv returns; the unwraps of
\* the callback and the one on the result of recv panic on an error.
LoopRecv ==
    /\ link.pc = "recv"
    /\ IF link.inbound = <<>>
       THEN \E received \in BOOLEAN :
                link' = IF received
                        THEN Enter(link, StepAfter("recv"))
                        ELSE [link EXCEPT !.pc = "panicked"]
       ELSE LET f == Head(link.inbound)
                l == [link EXCEPT !.inbound = Tail(@)] IN
            CASE f.kind = "Malformed" -> link' = [l EXCEPT !.pc = "panicked"]
              [] f.kind = "Ping" -> link' = [l EXCEPT !.ping = l.now]
              [] f.kind = "Action" ->
                    /\ WithinCap(l.world, f.action)
                    /\ \E performs \in BOOLEAN :
                        link' = IF performs \/ ~l.world[next_character(l.world)].player_controlled
                                THEN [l EXCEPT
                                        !.world = recv_action(@, f.action),
                                        !.awaiting_input = awaiting_after_action(@),
                                        !.acted = TRUE]
                                ELSE [l EXCEPT !.pc = "panicked"]
    /\ UNCHANGED not_loop

\* `if instance.server.players.ping.elapsed() > TIMEOUT { return; }`
LoopTimeout ==
    /\ link.pc = "timeout"
    /\ link' = IF TimedOut(link.now, link.ping)
               THEN [link EXCEPT !.pc = "returned"]
               ELSE Enter(link, StepAfter("timeout"))
    /\ UNCHANGED not_loop

\* instance.server.tick(&scripts).unwrap()
LoopTick ==
    /\ link.pc = "tick"
    /\ IF TickActs(link.world)
       THEN \E calls \in 1..MaxForEach, choice \in 1..Len(consider_turn(link.world)) :
                LET r == consider_action(consider_turn(link.world), calls, choice) IN
                IF r.ok
                THEN /\ WithinCap(link.world, r.action)
                     /\ link' = Enter([link EXCEPT !.world = perform_action(@, r.action)],
                                      StepAfter("tick"))
                ELSE link' = [link EXCEPT !.pc = "panicked"]
       ELSE link' = Enter(link, StepAfter("tick"))
    /\ UNCHANGED not_loop

\* The World for a player whose turn it is: written once, then awaited. A
\* failed write_all panics the thread.
LoopSend ==
    /\ link.pc = "send"
    /\ IF link.world[next_character(link.world)].player_controlled /\ ~link.awaiting_input
       THEN \E written \in BOOLEAN :
                link' = IF written
                        THEN Enter([link EXCEPT !.awaiting_input = TRUE,
                                                !.worlds = @ + 1,
                                                !.acted = FALSE],
                                   StepAfter("send"))
                        ELSE [link EXCEPT !.pc = "panicked"]
       ELSE link' = Enter(link, StepAfter("send"))
    /\ UNCHANGED not_loop

LoopNext == LoopPeer \/ LoopAdvance \/ LoopRecv \/ LoopTimeout \/ LoopTick \/ LoopSend

\* The server loop with peers that send only AuthFrames.
AuthNext ==
    \/ Connect
    \/ PeerSendAuth
    \/ PeerStream
    \/ Advance
    \/ Accept
    \/ Flush
    \/ Recv
    \/ Callback
    \/ TimeoutCheck
    \/ Match
    \/ ServerTick
    \/ Broadcast
    \/ Sleep

AuthSpec == Init /\ [][AuthNext]_vars

\* A script given one Considerations value, calling for_each on it.
ConsiderSpecInit ==
    /\ ServerInit
    /\ ConsiderInit
    /\ ReplayIdle
    /\ WireIdle
    /\ ThreadIdle
    /\ ConsoleIdle
    /\ PieceIdle
    /\ LoopIdle
    /\ FanIdle
    /\ ClientIdle

ConsiderSpec == ConsiderSpecInit /\ [][ForEach]_vars

\* Two runs of the scheduler side by side.
ReplaySpecInit ==
    /\ ServerInit
    /\ ConsiderIdle
    /\ ReplayInit
    /\ WireIdle
    /\ ThreadIdle
    /\ ConsoleIdle
    /\ PieceIdle
    /\ LoopIdle
    /\ FanIdle
    /\ ClientIdle

ReplayNext == ReplayAction \/ ReplayTurn

ReplaySpec == ReplaySpecInit /\ [][ReplayNext]_vars

\* One connection thread writing frames and its peer reading them.
WireSpecInit ==
    /\ ServerInit
    /\ ConsiderIdle
    /\ ReplayIdle
    /\ WireInit
    /\ ThreadIdle
    /\ ConsoleIdle
    /\ PieceIdle
    /\ LoopIdle
    /\ FanIdle
    /\ ClientIdle

WireSpec == WireSpecInit /\ [][WireNext]_vars

\* The listener of the server binary and the threads it spawns.
ThreadSpecInit ==
    /\ ServerInit
    /\ ConsiderIdle
    /\ ReplayIdle
    /\ WireIdle
    /\ ThreadInit
    /\ ConsoleIdle
    /\ PieceIdle
    /\ LoopIdle
    /\ FanIdle
    /\ ClientIdle

ThreadSpec == ThreadSpecInit /\ [][ThreadNext]_vars

\* The console channel, its senders and its listener.
ConsoleSpecInit ==
    /\ ServerInit
    /\ ConsiderIdle
    /\ ReplayIdle
    /\ WireIdle
    /\ ThreadIdle
    /\ ConsoleInit
    /\ PieceIdle
    /\ LoopIdle
    /\ FanIdle
    /\ ClientIdle

ConsoleSpec == ConsoleSpecInit /\ [][ConsoleNext]_vars

\* The client console under update; update is called on every frame.
DialogueSpecInit ==
    /\ ServerInit
    /\ ConsiderIdle
    /\ ReplayIdle
    /\ WireIdle
    /\ ThreadIdle
    /\ DialogueInit
    /\ PieceIdle
    /\ LoopIdle
    /\ FanIdle
    /\ ClientIdle

DialogueSpec == DialogueSpecInit /\ [][DialogueNext]_vars /\ WF_vars(Update)

\* One piece under the operations of character.rs.
PieceSpecInit ==
    /\ ServerInit
    /\ ConsiderIdle
    /\ ReplayIdle
    /\ WireIdle
    /\ ThreadIdle
    /\ ConsoleIdle
    /\ PieceInit
    /\ LoopIdle
    /\ FanIdle
    /\ ClientIdle

PieceSpec == PieceSpecInit /\ [][PieceNext]_vars

\* One piece and one spell under Spell::affinity.
SpellSpecInit ==
    /\ ServerInit
    /\ ConsiderIdle
    /\ ReplayIdle
    /\ WireIdle
    /\ ThreadIdle
    /\ ConsoleIdle
    /\ SpellInit
    /\ LoopIdle
    /\ FanIdle
    /\ ClientIdle

SpellSpec == SpellSpecInit /\ [][SpellNext]_vars

\* The loop of one connection thread of the server binary.
LoopSpecInit ==
    /\ ServerInit
    /\ ConsiderIdle
    /\ ReplayIdle
    /\ WireIdle
    /\ ThreadIdle
    /\ ConsoleIdle
    /\ PieceIdle
    /\ LoopInit
    /\ FanIdle
    /\ ClientIdle

LoopSpec == LoopSpecInit /\ [][LoopNext]_vars

\* The console channel of one instance.
FanSpecInit ==
    /\ ServerInit
    /\ ConsiderIdle
    /\ ReplayIdle
    /\ WireIdle
    /\ ThreadIdle
    /\ ConsoleIdle
    /\ PieceIdle
    /\ LoopIdle
    /\ FanInit
    /\ ClientIdle

FanSpec == FanSpecInit /\ [][FanNext]_vars

\* One client under events and ticks.
ClientSpecInit ==
    /\ ServerInit
    /\ ConsiderIdle
    /\ ReplayIdle
    /\ WireIdle
    /\ ThreadIdle
    /\ PieceIdle
    /\ LoopIdle
    /\ FanIdle
    /\ ClientInit

ClientSpec == ClientSpecInit /\ [][ClientNext]_vars

\* ================================================================ claims
\* The client whose client_tick is running.
Cur == clients[i]
ReadyIsPlayer == world[next_character(world)].player_controlled
\* The step in which the recv callback handles `packet`.
Dispatching == pc = "callback" /\ pc' # "callback"
DispatchingAction == Dispatching /\ packet.kind = "Action" /\ Decodes(packet)

\* C1: an Action packet dispatched while the ready character is not player
\* controlled is never applied: the world after the dispatch equals the world
\* before it.
C1_RejectedActionKeepsWorld ==
    [][(DispatchingAction /\ ~ReadyIsPlayer) => world' = world]_vars

\* An Action was just rejected: the sender holds the resync and the ready
\* character is not player controlled.
C1_Witness ==
    /\ pc = "recv"
    /\ packet.kind = "Action" /\ packet.ok
    /\ ~ReadyIsPlayer
    /\ Cur.id \notin stale
    /\ Cur.sender # <<>>
    /\ Cur.sender[Len(Cur.sender)].kind = "World"

\* C2: a rejected Action queues exactly one World to the sending client,
\* queues nothing to any other client, keeps every session in the active set
\* and lets client_tick continue without an error result.
C2_RejectionIsLocal ==
    [][(DispatchingAction /\ ~ReadyIsPlayer) =>
            /\ Len(clients') = Len(clients)
            /\ clients'[i] = [Cur EXCEPT !.sender = Append(Cur.sender, ServerWorld(world))]
            /\ \A j \in 1..Len(clients) : j # i => clients'[j] = clients[j]
            /\ pc' = "recv"
            /\ result' = "None"]_vars

\* An Action was just rejected while a second session is active and was sent
\* nothing.
C2_Witness ==
    /\ pc = "recv"
    /\ packet.kind = "Action" /\ packet.ok
    /\ ~ReadyIsPlayer
    /\ Len(clients) = 2
    /\ Cur.id \notin stale
    /\ Cur.sender # <<>>
    /\ Cur.sender[Len(Cur.sender)].kind = "World"
    /\ \E j \in 1..Len(clients) : j # i /\ clients[j].sender = <<>>

\* C3 (as claimed): an Action from a client that does not own the ready actor
\* is dropped and answered with a World snapshot, even when the ready actor is
\* player controlled (a dispatch that panics in perform_action aside).
C3_OwnershipEnforced ==
    [][(/\ DispatchingAction
        /\ pc' # "panicked"
        /\ next_character(world) \notin Cur.owned_pieces) =>
            /\ world' = world
            /\ clients'[i].sender = Append(Cur.sender, ServerWorld(world))]_vars

\* C4 (as claimed): when the scheduler waits for player input, every active
\* client has been queued a World snapshot taken after the last change of the
\* world.
C4_SnapshotBeforeWaiting ==
    pc = "sleep" => stale = {}

\* C5 (as claimed): a client taken from the router has a World snapshot
\* queued when it enters the active set.
C5_InitialSnapshot ==
    [][(pc = "accept" /\ pc' # "accept") =>
            \A k \in (Len(clients) + 1)..Len(clients') :
                \E j \in 1..Len(clients'[k].sender) : clients'[k].sender[j].kind = "World"]_vars

\* C6: a client_tick of a session that has sent no frame for more than
\* TIMEOUT never returns Ok, returns Timeout when it reaches the liveness
\* check, and the session it returns an error for is removed from the active
\* set with the world unchanged.
C6_SilentSessionDropped ==
    [][/\ (pc # "match" /\ pc' = "match" /\ now - heard[Cur.id] > TIMEOUT) =>
            /\ result' # "Ok"
            /\ pc = "timeout" => result' = "Timeout"
            /\ world' = world
       /\ (pc = "match" /\ pc' # "match" /\ result # "Ok") =>
            /\ Cur.id \notin ActiveIds(clients')
            /\ ActiveIds(clients') = ActiveIds(clients) \ {Cur.id}
            /\ world' = world]_vars

\* A session silent for more than TIMEOUT has just been given Timeout.
C6_Witness ==
    /\ pc = "match"
    /\ result = "Timeout"
    /\ now - heard[Cur.id] > TIMEOUT

\* C7 (as claimed): a session from which a frame of any variant was
\* dispatched within the last TIMEOUT seconds is not given Timeout.
C7_AnyPacketKeepsAlive ==
    [][(pc = "timeout" /\ pc' = "match" /\ now - heard[Cur.id] <= TIMEOUT) =>
            result' # "Timeout"]_vars

\* C8 (as claimed): a frame that fails to decode drops exactly its session;
\* the loop keeps running, the other sessions stay, the world is unchanged.
C8_DecodeFailureIsLocal ==
    [][(Dispatching /\ ~Decodes(packet)) =>
            /\ pc' # "panicked"
            /\ ActiveIds(clients') = ActiveIds(clients) \ {Cur.id}
            /\ world' = world]_vars

\* C9: a would-block result of the flush or of the receive lets the tick
\* continue with the session untouched; any other I/O error makes the tick
\* return Err(Io), and the session is then removed.
C9_WouldBlockIsNotAnError ==
    [][/\ (pc = "flush" /\ pc' # "flush") =>
            /\ SendResult(net[Cur.id].state) = "WouldBlock" =>
                    pc' = "recv" /\ clients' = clients /\ result' = "None"
            /\ SendResult(net[Cur.id].state) = "Err" =>
                    pc' = "match" /\ result' = "Io"
       /\ (pc = "recv" /\ pc' # "recv" /\ net[Cur.id].inbound = <<>>) =>
            /\ RecvResult(net[Cur.id].state) = "WouldBlock" =>
                    pc' = "timeout" /\ clients' = clients /\ result' = "None"
            /\ RecvResult(net[Cur.id].state) = "Err" =>
                    pc' = "match" /\ result' = "Io"
       /\ (pc = "match" /\ pc' # "match" /\ result = "Io") =>
            Cur.id \notin ActiveIds(clients')]_vars

\* The flush of a session would block and its tick went on to receive, with
\* the queue still pending.
C9_Witness ==
    /\ pc = "recv"
    /\ packet = NoPacket
    /\ Cur.sender # <<>>
    /\ Cur.id \in ActiveIds(clients)

\* C10 (as claimed): whenever Server::tick runs for a non-player actor, also
\* when its decision policy fails, an action is applied and the loop goes on.
C10_PolicyFailureFallsBack ==
    [][(pc = "tick" /\ pc' # "tick" /\ ~ReadyIsPlayer) =>
            /\ pc' = "broadcast"
            /\ world' # world]_vars

\* C11: a Considerations list is consumed once. The first for_each call
\* invokes the callback on the Considers of the list in list order, on all of
\* them when no callback invocation fails; every later call fails with the
\* "exhausted" error and invokes the callback on nothing.
C11_ConsumedOnce ==
    [][ncalls' = ncalls + 1 =>
        IF ncalls = 0
        THEN /\ ret' \in {"Ok", "callback error"}
             /\ ret' = "Ok" => visited' = given
             /\ visited' = SubSeq(given, 1, Len(visited'))
        ELSE /\ ret' = Exhausted
             /\ visited' = <<>>]_vars
\* A second call was made on a list of several Considers.
C11_Witness == ncalls = 2 /\ ret = Exhausted /\ Len(given) >= 2 /\ visited = <<>>

\* The step in which Server::tick runs.
Ticking == pc = "tick" /\ pc' # "tick"

\* C12 (as claimed): a Server::tick that finds a non-player actor ready
\* applies exactly one of the actions of its considerations list through
\* perform_action and returns true (the loop goes on to the broadcast).
C12_NpcTickActsOnce ==
    [][(Ticking /\ ~ReadyIsPlayer) =>
            /\ pc' = "broadcast"
            /\ \E k \in 1..Len(consider_turn(world)) :
                    world' = perform_action(world, consider_turn(world)[k].action)]_vars

\* C13: a Server::tick that finds a player-controlled actor ready returns
\* false (the loop goes to its sleep) and leaves the world as it is; while a
\* player-controlled actor is ready, only the dispatch of a client Action
\* packet changes the world.
C13_AwaitingInput ==
    [][/\ (Ticking /\ ReadyIsPlayer) => (pc' = "sleep" /\ world' = world)
       /\ (ReadyIsPlayer /\ world' # world) => DispatchingAction]_vars

\* The tick has returned false with a client connected, after the world has
\* changed at least once.
C13_Witness ==
    /\ pc = "sleep"
    /\ ReadyIsPlayer
    /\ clients # <<>>
    /\ world # InitWorld

\* C14: an Action packet dispatched while the ready actor is player
\* controlled is applied, through perform_action and to the actor the
\* scheduler has granted the turn, in the step that dispatches it, so before
\* any later dispatch and before the next Server::tick.
C14_AppliedWithinDispatch ==
    [][(DispatchingAction /\ ReadyIsPlayer) =>
            /\ world' = perform_action(world, packet.action)
            /\ world'[next_character(world)] # world[next_character(world)]
            /\ \A k \in Actors : k # next_character(world) => world'[k] = world[k]
            /\ pc' = "recv"]_vars

\* The actors whose action_delay is not positive.
Due == {k \in Actors : world[k].action_delay <= 0}

\* C15: whenever a turn is taken (the world changes), it is taken by one
\* actor, no actor had a smaller action_delay, and every actor that comes
\* before it in insertion order had a larger one.
C15_ReadyIsMinimal ==
    [][world' # world =>
        \E k \in Actors :
            /\ world'[k] # world[k]
            /\ \A j \in Actors \ {k} : world'[j] = world[j]
            /\ \A j \in Actors : world[k].action_delay <= world[j].action_delay
            /\ \A j \in Actors : j < k => world[k].action_delay < world[j].action_delay]_vars

\* The first turn of all has been taken, out of a tie between every actor, by
\* the first actor in insertion order.
C15_Witness ==
    /\ world[1].action_delay > 0
    /\ \A k \in Actors \ {1} : world[k] = InitWorld[k]

\* C16 (as claimed): in every reachable state at most one actor has
\* action_delay <= 0.
C16_AtMostOneDue == Cardinality(Due) <= 1

\* C16 (amended): every piece is created with action_delay 0 and no
\* action_delay is ever negative, so several actors can have action_delay <= 0
\* when a turn is dispatched; the ready actor is then the first of them in
\* insertion order.
C16_FirstDueIsReady ==
    /\ world = InitWorld => Due = Actors
    /\ \A k \in Actors : world[k].action_delay >= 0
    /\ Due # {} =>
        /\ next_character(world) \in Due
        /\ \A j \in Due : next_character(world) <= j

\* A turn is being dispatched, by the tick or by the dispatch of an Action,
\* while several actors have action_delay <= 0 and turns have been taken.
C16_Witness ==
    /\ \/ pc = "tick"
       \/ pc = "callback" /\ packet.kind = "Action"
    /\ Cardinality(Due) >= 2
    /\ world # InitWorld

\* C17 (as claimed): two runs of the server on the same actors, fed the same
\* sequence of actions, have identical world states after every step.
C17_RunsAgree == runA.world = runB.world

\* The step in which the instance drains the router channel.
Accepting == pc = "accept" /\ pc' # "accept"
DispatchingKind(kind) == Dispatching /\ packet.kind = kind /\ Decodes(packet)
\* The authentication of the active session of connection `id`.
AuthOf(cl, id) == cl[CHOOSE k \in 1..Len(cl) : cl[k].id = id].authentication

\* C18: the drain of the router channel appends every routed client to the
\* active set once, in order, with exactly one Ping on its outbound queue,
\* and leaves the sessions already active alone; no connection that is open
\* is missing from the channel and the active set, or in them twice.
C18_RoutedOnce ==
    /\ [](/\ \A id \in Ids : net[id].state # "closed" =>
                    id \in ActiveIds(clients) \cup ActiveIds(router)
           /\ Cardinality(ActiveIds(clients) \cup ActiveIds(router))
                    = Len(clients) + Len(router))
    /\ [][Accepting =>
            /\ Len(clients') = Len(clients) + Len(router)
            /\ router' = <<>>
            /\ \A k \in 1..Len(clients) : clients'[k] = clients[k]
            /\ \A k \in 1..Len(router) :
                    /\ clients'[Len(clients) + k].id = router[k].id
                    /\ clients'[Len(clients) + k].sender = <<ServerPing>>]_vars

\* Two clients have been taken from the channel; the second has its Ping
\* queued and its first client_tick is still to come.
C18_Witness ==
    /\ pc = "flush"
    /\ i = 1
    /\ Len(clients) = 2
    /\ clients[2].sender = <<ServerPing>>
    /\ router = <<>>

\* C19: the dispatch of a Ping packet queues exactly one Ping to the client
\* it came from and sets that client's liveness timestamp to the current
\* time; the rest of that session, the other sessions and the world are as
\* before.
C19_PingAnswered ==
    [][DispatchingKind("Ping") =>
            /\ clients' = [clients EXCEPT ![i].sender = Append(Cur.sender, ServerPing),
                                          ![i].ping = now]
            /\ world' = world
            /\ router' = router
            /\ pc' = "recv"]_vars

\* A Ping of one of two sessions has just been answered, later than that
\* session was created.
C19_Witness ==
    /\ pc = "recv"
    /\ packet.kind = "Ping"
    /\ Len(clients) = 2
    /\ now > 0
    /\ Cur.ping = now
    /\ Cur.sender # <<>>
    /\ Cur.sender[Len(Cur.sender)] = ServerPing
    /\ \E j \in 1..Len(clients) : j # i /\ clients[j].ping < now

\* C20: a session is created without authentication; its authentication
\* changes only when an Authenticate packet of its client is dispatched; every
\* such dispatch stores the credentials of the packet and lets the tick go
\* on with the session in place.
C20_LastCredentialsWin ==
    /\ [](\A k \in 1..Len(router) : router[k].authentication = "None")
    /\ [][/\ Accepting =>
                \A k \in (Len(clients) + 1)..Len(clients') :
                    clients'[k].authentication = "None"
          /\ \A id \in ActiveIds(clients) \cap ActiveIds(clients') :
                (AuthOf(clients', id) # AuthOf(clients, id)) =>
                    (DispatchingKind("Authenticate") /\ Cur.id = id)
          /\ DispatchingKind("Authenticate") =>
                /\ clients' = [clients EXCEPT ![i].authentication = packet.user]
                /\ pc' = "recv"
                /\ result' = "None"]_vars

\* A session that was authenticated has just been authenticated again, with
\* other credentials.
C20_Witness ==
    /\ pc = "recv"
    /\ packet.kind = "Authenticate" /\ packet.ok
    /\ packet.user = "b"
    /\ Cur.authentication = "b"
    /\ frames >= 2

\* C21: the dispatch of a Route packet changes neither the world nor any
\* session (authentication, owned_pieces, liveness timestamp, outbound queue)
\* nor the router channel, and lets the tick go on.
C21_RouteIsNoOp ==
    [][DispatchingKind("Route") =>
            /\ world' = world
            /\ clients' = clients
            /\ router' = router
            /\ pc' = "recv"
            /\ result' = "None"]_vars

\* A Route packet has just been dispatched, later than the last Ping of its
\* session, whose liveness timestamp has stayed behind.
C21_Witness ==
    /\ pc = "recv"
    /\ packet.kind = "Route"
    /\ heard[Cur.id] = now
    /\ Cur.ping < now

\* C22: the owned_pieces of every session, routed or active, is empty, and
\* so a subset of the actor ids, in every reachable state.
C22_OwnsNothing ==
    /\ \A k \in 1..Len(clients) :
            clients[k].owned_pieces = {} /\ clients[k].owned_pieces \subseteq Actors
    /\ \A k \in 1..Len(router) :
            router[k].owned_pieces = {} /\ router[k].owned_pieces \subseteq Actors

\* An Action of an authenticated session has been applied; the session still
\* owns nothing.
C22_Witness ==
    /\ pc = "recv"
    /\ packet.kind = "Action" /\ packet.ok
    /\ world # InitWorld
    /\ Cur.authentication # "None"
    /\ Cur.owned_pieces = {}

\* C25 (as claimed): the loop sleeps only when the ready actor waits for a
\* player and no session has undelivered inbound or outbound data.
C25_SleepsOnlyWhenIdle ==
    pc = "sleep" =>
        /\ ReadyIsPlayer
        /\ \A k \in 1..Len(clients) :
                /\ clients[k].sender = <<>>
                /\ net[clients[k].id].inbound = <<>>

\* The connections at positions k.. of the active set: those the pass over
\* the active set has yet to tick when it stands at k.
IdsFrom(cl, k) == {cl[j].id : j \in k..Len(cl)}

\* C30: the match on the result of a client_tick removes the ticked session
\* on an error and nothing else otherwise; either way the sessions the pass
\* has yet to tick are exactly those that stood behind the ticked one, and
\* the pass ends when there is none; while a session is ticked the active
\* set and the position of the pass stay as they are.
C30_PassTicksEachOnce ==
    [][/\ (pc = "match" /\ pc' # "match") =>
            /\ result = "Ok" => clients' = clients
            /\ result # "Ok" =>
                    /\ Len(clients') = Len(clients) - 1
                    /\ ActiveIds(clients') = ActiveIds(clients) \ {Cur.id}
                    /\ \A k \in 1..Len(clients') :
                            \E j \in 1..Len(clients) : clients'[k] = clients[j]
            /\ IF IdsFrom(clients, i + 1) = {}
               THEN pc' = "tick"
               ELSE /\ pc' = "flush"
                    /\ IdsFrom(clients', i') = IdsFrom(clients, i + 1)
       /\ (pc \in {"flush", "recv", "callback", "timeout"} /\ pc' # "panicked") =>
            /\ i' = i
            /\ clients' # clients =>
                    /\ Len(clients') = Len(clients)
                    /\ \A k \in 1..Len(clients) : clients'[k].id = clients[k].id]_vars

\* The first of two sessions has been removed and the second, moved into
\* its place, is about to be ticked.
C30_Witness ==
    /\ pc = "flush"
    /\ i = 1
    /\ Len(clients) = 1
    /\ clients[1].id = 2
    /\ net[1].state = "closed"

\* A byte string cut into frames, each a 4-byte length, least significant
\* byte first, and as many bytes of payload as the length says; `rest` is
\* what follows the last whole frame.
RECURSIVE Deframe(_)
Deframe(b) ==
    IF Len(b) < 4 THEN [payloads |-> <<>>, rest |-> b]
    ELSE LET n == b[1] + 256 * (b[2] + 256 * (b[3] + 256 * b[4])) IN
         IF Len(b) < 4 + n THEN [payloads |-> <<>>, rest |-> b]
         ELSE LET d == Deframe(SubSeq(b, 5 + n, Len(b))) IN
              [payloads |-> <<SubSeq(b, 5, 4 + n)>> \o d.payloads, rest |-> d.rest]

\* C23: the bytes a connection thread has written are the frames of the
\* packets it sent, in order: each a 4-byte little-endian length that counts
\* the payload alone, then the payload.  Between its two writes the stream
\* ends with the length prefix and the payload completes the frame; a write
\* that failed leaves a frame cut short and no frame that was not sent.
C23_FramesWellFormed ==
    LET d == Deframe(conn.wire)
        wire == conn.wire
        sent == conn.sent IN
    /\ conn.wpc = "idle" => d = [payloads |-> sent, rest |-> <<>>]
    /\ conn.wpc = "payload" =>
            /\ Deframe(wire \o sent[Len(sent)]) = [payloads |-> sent, rest |-> <<>>]
            /\ Deframe(SubSeq(wire, 1, Len(wire) - 4)) =
                    [payloads |-> SubSeq(sent, 1, Len(sent) - 1), rest |-> <<>>]
    /\ conn.wpc = "dead" =>
            /\ d.payloads = SubSeq(sent, 1, Len(sent) - 1)
            /\ Len(d.rest) < 4 + Len(sent[Len(sent)])

\* Two frames have been written whole, the first with a payload of two bytes.
C23_Witness ==
    /\ conn.wpc = "idle"
    /\ Len(conn.sent) = 2
    /\ Len(conn.sent[1]) = 2
    /\ Len(conn.sent[2]) = 1
    /\ Len(conn.wire) = 11

\* Offset in the stream at which the k-th frame sent ends.
RECURSIVE FrameEnd(_)
FrameEnd(k) == IF k = 0 THEN 0 ELSE FrameEnd(k - 1) + 4 + Len(conn.sent[k])

\* C24: whatever the split of the stream across reads, the frame reader has
\* yielded exactly the payloads of the frames that lie whole within the bytes
\* it has read, in order; a frame cut short yields nothing and no error is
\* reported; at the end of a frame the reader is back to expecting a length
\* prefix with nothing buffered.
C24_YieldsWholeFrames ==
    /\ conn.rret \in {"None", "Ok"}
    /\ \E k \in 0..Len(conn.sent) :
        /\ conn.yielded = SubSeq(conn.sent, 1, k)
        /\ FrameEnd(k) <= conn.taken
        /\ k < Len(conn.sent) => conn.taken < FrameEnd(k + 1)
        /\ conn.taken = FrameEnd(k) => conn.reader = PacketReceiver_default
        /\ Len(conn.reader.buf) + (IF conn.reader.known THEN 4 ELSE 0)
                = conn.taken - FrameEnd(k)

\* The reader has read one whole frame and all of a second frame but its last
\* byte, and has yielded the first payload only.
C24_Witness ==
    /\ conn.wpc = "dead"
    /\ Len(conn.sent) = 2
    /\ Len(conn.sent[1]) > 0
    /\ Len(conn.wire) = FrameEnd(2) - 1
    /\ conn.taken = Len(conn.wire)
    /\ conn.yielded = <<conn.sent[1]>>
    /\ conn.rret = "Ok"

\* C26: no two threads are at the same time inside recv_action or tick on
\* the same world, and no world is ever mutated by more than one thread,
\* whatever the number of connections and the interleaving of their threads.
C26_OneAuthorityPerWorld ==
    /\ \A t, u \in Threads :
            (/\ t # u
             /\ threads.tpc[t] \in {"action", "tick"}
             /\ threads.tpc[u] \in {"action", "tick"})
                => WorldOf(t) # WorldOf(u)
    /\ \A w \in Threads : Cardinality(threads.writers[w]) <= 1

\* Two connection threads are mutating at the same time, one applying an
\* action and one advancing its scheduler, and a third has mutated before.
C26_Witness ==
    /\ threads.tpc[1] = "action"
    /\ threads.tpc[2] = "tick"
    /\ threads.writers[WorldOf(1)] # {}
    /\ threads.writers[WorldOf(3)] # {}

\* C27 (as claimed): no way of sending a console message reports an error to
\* its caller, and a message sent when no listener exists is dropped.
C27_SendNeverFails ==
    /\ console.cret # "Err"
    /\ console.listener = "dropped" => console.chan = <<>>

\* The sum of the magnitudes inflicted on an entry, held at u32::MAX.
SatSum(g) ==
    LET hi == g.hi + (g.lo \div 65536) IN
    IF hi >= 65536 THEN u32_MAX ELSE <<hi, g.lo % 65536>>

\* C28 (as claimed): every entry of a piece's statuses carries as its
\* magnitude the saturated sum of the magnitudes inflicted under its id.
C28_MagnitudeIsSum ==
    \A key \in DOMAIN actor.piece.statuses :
        LET e == actor.piece.statuses[key].effect IN
        /\ SatSum(actor.inflicted[key]) # u32_ZERO => e.kind = "Debuff"
        /\ e.kind = "Debuff" => e.magnitude = SatSum(actor.inflicted[key])

\* C28 (amended): the statuses hold one entry per id, each the definition
\* the resources give for that id; an entry whose effect is a Debuff carries
\* the saturated sum of the magnitudes inflicted under its id, an entry whose
\* effect is a StaticDebuff has no magnitude and stays as the resource
\* defines it; a key the resources do not know inserts nothing.
C28_DebuffMagnitudeIsSum ==
    /\ DOMAIN actor.piece.statuses \subseteq DOMAIN StatusResource
    /\ \A key \in DOMAIN actor.piece.statuses :
        LET status == actor.piece.statuses[key] IN
        /\ status.name = key
        /\ actor.inflicted[key].n >= 1
        /\ IF status.effect.kind = "Debuff"
           THEN status = [StatusResource[key] EXCEPT
                              !.effect.magnitude = SatSum(actor.inflicted[key])]
           ELSE status = StatusResource[key]

\* Two inflictions of 2^31 on the same Debuff status have left one entry at
\* u32::MAX, next to a StaticDebuff entry inflicted with a magnitude.
C28_Witness ==
    /\ DOMAIN actor.piece.statuses = {"bleed", "weak"}
    /\ actor.inflicted["bleed"] = [n |-> 2, hi |-> 65536, lo |-> 0]
    /\ actor.piece.statuses["bleed"].effect.magnitude = u32_MAX
    /\ actor.inflicted["weak"].hi + actor.inflicted["weak"].lo > 0

\* C29 (as claimed): hp is at most the current stats().heart and sp at most
\* the current stats().soul.
C29_PoolsWithinMaxima ==
    /\ actor.piece.hp <= Piece_stats(actor.piece).heart
    /\ actor.piece.sp <= Piece_stats(actor.piece).soul

\* C31: the connection is dropped for a timeout only after the frames that
\* had arrived were dispatched: an iteration that began with a Ping waiting
\* does not end in the timeout return, however long the previous Ping was
\* ago, unless the iteration itself lasted longer than the timeout.
C31_PingBeatsTimeout ==
    (link.pc = "returned" /\ link.arrived) => link.now - link.began > TIMEOUT

\* The iteration began with the ping overdue and a Ping waiting, and is past
\* the timeout check.
C31_Witness ==
    /\ link.pc = "tick"
    /\ link.late
    /\ link.arrived
    /\ link.ping = link.now

\* C33: the loop writes a World only at its last statement, and exactly when
\* the ready character is player controlled and either no World was written
\* by the loop yet or an Action has been received since the last one.
C33_OneWorldPerAction ==
    [][/\ link.pc # "send" => link'.worlds = link.worlds
       /\ (link.pc = "send" /\ link'.pc \notin {"send", "panicked"}) =>
            link'.worlds =
                IF /\ link.world[next_character(link.world)].player_controlled
                   /\ (link.acted \/ link.worlds = 0)
                THEN link.worlds + 1
                ELSE link.worlds]_vars

\* A second World has been written, after an Action, and the loop awaits
\* the next Action with the ready character still player controlled.
C33_Witness ==
    /\ link.worlds = 2
    /\ link.awaiting_input
    /\ link.pc = "send"
    /\ link.world[next_character(link.world)].player_controlled

\* The messages of the log that were drained while client c was active.
RECURSIVE DrainedFor(_, _)
DrainedFor(log, c) ==
    IF log = <<>> THEN <<>>
    ELSE (IF \E k \in 1..Len(Head(log).to) : Head(log).to[k] = c
          THEN <<Head(log).msg>> ELSE <<>>) \o DrainedFor(Tail(log), c)

\* C32: the messages are drained in the order of their emission, each once;
\* the queue of every active client holds, once each and in that order, the
\* messages drained while it was in the active set, and nothing else: none of
\* those drained before it joined or while the active set was empty.
C32_FanOutOnce ==
    /\ [k \in 1..Len(fan.log) |-> fan.log[k].msg] = [k \in 1..Len(fan.log) |-> k]
    /\ fan.chan = [k \in 1..(fan.emitted - Len(fan.log)) |-> Len(fan.log) + k]
    /\ \A k \in 1..Len(fan.active) :
            fan.outq[fan.active[k]] = DrainedFor(fan.log, fan.active[k])
    /\ \A c \in FanIds :
            (\A k \in 1..Len(fan.active) : fan.active[k] # c) => fan.outq[c] = <<>>

\* A first message was drained with no client active, a second with one
\* client, the third with two; the second client holds the third only.
C32_Witness ==
    /\ Len(fan.log) = 3
    /\ fan.log[1].to = <<>>
    /\ fan.log[2].to = <<1>>
    /\ fan.active = <<1, 2>>
    /\ fan.outq[1] = <<2, 3>>
    /\ fan.outq[2] = <<3>>

\* The statuses of `before` whose duration is not `ended`, each as it was.
Surviving(before, ended) ==
    {k \in DOMAIN before.statuses : before.statuses[k].duration # ended}
OnlyEnded(before, after, ended) ==
    /\ DOMAIN after.statuses = Surviving(before, ended)
    /\ \A k \in Surviving(before, ended) : after.statuses[k] = before.statuses[k]
SamePlace(before, after) ==
    /\ after.x = before.x
    /\ after.y = before.y
    /\ after.action_delay = before.action_delay
    /\ after.alliance = before.alliance
    /\ after.player_controlled = before.player_controlled

\* C35: new_turn removes exactly the statuses whose duration is Turn and
\* leaves every Rest status as it was; rest removes exactly the statuses
\* whose duration is Rest and leaves every Turn status as it was; neither
\* changes the position, action_delay, alliance or player_controlled.
C35_EndsOnlyItsDuration ==
    [][/\ (actor' # actor /\ actor'.op = "new_turn")
            => /\ OnlyEnded(actor.piece, actor'.piece, "Turn")
               /\ SamePlace(actor.piece, actor'.piece)
       /\ (actor' # actor /\ actor'.op = "rest")
            => /\ OnlyEnded(actor.piece, actor'.piece, "Rest")
               /\ SamePlace(actor.piece, actor'.piece)]_vars

\* A moved, player-controlled friendly piece held both statuses and a new turn
\* left it the one that lasts until a rest.
C35_Witness ==
    /\ actor.op = "new_turn"
    /\ DOMAIN actor.piece.statuses = {"weak"}
    /\ actor.inflicted["weak"].n = 1
    /\ actor.pops = 4
    /\ actor.piece.x = 9
    /\ actor.piece.player_controlled
    /\ actor.piece.alliance = "Friendly"
    /\ actor.piece.action_delay = MaxDelay

\* C36: after rest, sp is the maximum soul given by stats() of the rested
\* piece, and hp is min(hp before + heart / 2, heart) with heart taken from
\* stats() of the rested piece, whatever statuses were active before.
C36_RestRestoresToMaxima ==
    [][(actor' # actor /\ actor'.op = "rest")
        => LET after == Piece_stats(actor'.piece) IN
           /\ actor'.piece.sp = after.soul
           /\ actor'.piece.hp = i32_min(actor.piece.hp + after.heart \div 2, after.heart)]_vars

\* The skill of the character on the axis of its major, and on the other
\* axis, against the spell.
MajorMatches ==
    LET skillset == actor.piece.sheet.skillset IN
    \/ skillset.kind = "EnergyMajor" /\ skillset.major = actor.spell.energy
    \/ skillset.kind = "HarmonyMajor" /\ skillset.major = actor.spell.harmony
MinorMatches ==
    LET skillset == actor.piece.sheet.skillset IN
    \/ skillset.kind = "EnergyMajor" /\ skillset.minor = actor.spell.harmony
    \/ skillset.kind = "HarmonyMajor" /\ skillset.minor = actor.spell.energy

\* C34: the affinity is Strong exactly when the major and the minor skill
\* both match the spell, Average exactly when only the major matches, Weak
\* exactly when only the minor matches, Uncastable exactly when neither does.
C34_AffinityByMatches ==
    actor.affinity # "none" =>
        /\ actor.affinity = "Strong" <=> (MajorMatches /\ MinorMatches)
        /\ actor.affinity = "Average" <=> (MajorMatches /\ ~MinorMatches)
        /\ actor.affinity = "Weak" <=> (~MajorMatches /\ MinorMatches)
        /\ actor.affinity = "Uncastable" <=> (~MajorMatches /\ ~MinorMatches)

\* A character whose major is Order and who has no minor skill was found
\* unable to cast a chaotic spell.
C34_Witness ==
    /\ actor.affinity = "Uncastable"
    /\ actor.piece.sheet.skillset = HarmonyMajor("Order", "None")
    /\ actor.spell.harmony = "Chaos"
    /\ actor.pret = "Ok"

\* The message at index k of the history is in the in_progress queue.
InProgress(k) == \E n \in DOMAIN console.in_progress : console.in_progress[n] = k

\* C37: every dialogue message received by the console is eventually removed
\* from the in_progress queue under repeated update calls.
C37_DialogueEventuallyPopped ==
    \A k \in 1..MaxSay : InProgress(k) ~> ~InProgress(k)

\* The ready character of the client's world copy.
Ready == client.world[next_character(client.world)]

\* C38: the client sends an action, from a key or from the chase, only in a
\* handler that found the ready character of its world copy player-controlled;
\* a key pressed when it is not leaves the mode as it was and sends nothing.
C38_ActsOnlyWhenReady ==
    [][/\ client'.sent # <<>> => Ready.player_controlled
       /\ (client'.op = "key" /\ ~Ready.player_controlled)
            => /\ client'.mode = client.mode
               /\ client'.sent = <<>>
               /\ client'.chase_point = client.chase_point]_vars

\* A key pressed while the party member was ready sent a Wait.
C38_Witness ==
    /\ client.op = "key"
    /\ client.sent = <<Wait(WaitAut)>>
    /\ Ready.player_controlled
    /\ client.chase_point # <<>>
    /\ ~client.ended

\* Chebyshev distance from the ready character to a point.
Distance(point) ==
    LET dx == IF Ready.x >= point.x THEN Ready.x - point.x ELSE point.x - Ready.x
        dy == IF Ready.y >= point.y THEN Ready.y - point.y ELSE point.y - Ready.y IN
    IF dx >= dy THEN dx ELSE dy

\* The ready character has reached the point it chases.
Reached(point) ==
    \/ point.kind = "Character" /\ point.alliance # Ready.alliance /\ Distance(point) <= 2
    \/ point.kind = "Character" /\ point.alliance = Ready.alliance /\ Distance(point) <= 1
    \/ point.kind = "Exit" /\ Distance(point) = 0

\* C39: in a tick with a chase point set and the ready character
\* player-controlled, the chase point is cleared and nothing is sent exactly
\* when the point is reached; otherwise one Move to the point's coordinates
\* is sent and the chase point is kept.
C39_ChaseClearsOrMoves ==
    [][(/\ client'.op = "tick"
        /\ client.chase_point # <<>>
        /\ Ready.player_controlled)
        => LET point == client.chase_point[1] IN
           IF Reached(point)
           THEN client'.chase_point = <<>> /\ client'.sent = <<>>
           ELSE /\ client'.chase_point = client.chase_point
                /\ client'.sent = <<Move(point.x, point.y)>>]_vars

\* Two tiles from a friendly character it chases, the party member was sent
\* on towards it.
C39_Witness ==
    /\ client.op = "tick"
    /\ client.chase_point = <<Character(Other(0, "Friendly"))>>
    /\ client.sent = <<Move(MaxCoord, 0)>>
    /\ client.world[1].x = MaxCoord - 2
    /\ next_character(client.world) = 1
    /\ ~client.ended

====
